---------------------------- MODULE Spec2Model ----------------------------
(***************************************************************************)
(* Model of the energy pipeline's retrieval core:                          *)
(*   - BatchRetriever (data_retrieval/batch_retrieval.py): validation of   *)
(*     the date range, window splitting, the sequential fetch loop with    *)
(*     its catch-all handler, and the final sort;                          *)
(*   - GlowmarktClient (data_retrieval/glowmarkt_client.py): credential    *)
(*     check, implicit authentication, and the HTTP request helper.        *)
(* Time is counted in ticks; one day is TicksPerDay ticks.                 *)
(***************************************************************************)
EXTENDS Integers, Sequences, FiniteSets, TLC

\* ------------------------------------------------------------------ bounds
\* Largest tick a start or end date of a batched retrieval is drawn from.
MaxTick == 4
\* Largest batch_days a batched retrieval is called with.
MaxBatchDays == 2
\* Window splitting on its own: start tick, end day and batch_days ranges.
MaxSplitStart == 2
MaxSplitEndDays == 30
MaxSplitBatchDays == 10
\* Direct client calls made one after the other on one client object.
MaxClientCalls == 3
\* Readings under the "data" key of one response document, and the largest
\* timestamp a reading carries.
MaxDocLen == 1
MaxTs == 2
\* Rows of one JSON file given to the converter.
MaxRows == 2
\* Converter operations run one after the other on one converter object.
MaxConvCalls == 2
\* Files of the directory given to combine_all_resources_into_single_file.
MaxDirFiles == 4
\* File pairs given to convert_to_yearly_jsonl.
MaxPairs == 2
\* JSON files given to create_jsonl_from_json_files.
MaxFiles == 3

\* Rows of a CSV file given to transform_csv_to_json.
MaxCsvRows == 3
\* Bits of the significand of a float (Python's has 53).
MantBits == 8

\* CSV files in the directory given to process_all_files.
MaxCsvFiles == 3

\* The most files in a directory searched for pairs.
MaxNames == 4

\* datetime.min lies this many days before day 0.
DatetimeMinDays == 2

\* timedelta(days=n) is n * TicksPerDay ticks (a tick is half a day).
TicksPerDay == 2

\* Python's None.
None == "None"

\* ------------------------------------------------------------- datetimes
\* A datetime is [t |-> wall-clock ticks, aware |-> whether it carries a
\* tzinfo, off |-> its UTC offset in ticks (0 when naive)].
Dt(t, aware, off) == [t |-> t, aware |-> aware, off |-> off]

Naive(t) == Dt(t, FALSE, 0)

Aware(t, off) == Dt(t, TRUE, off)

IsAware(d) == d.aware

\* The instant an aware datetime denotes; a naive one is compared as is.
Instant(d) == IF IsAware(d) THEN d.t - d.off ELSE d.t

\* datetime comparison raises TypeError between a naive and an aware value.
Comparable(a, b) == IsAware(a) = IsAware(b)

DtLt(a, b) == Instant(a) < Instant(b)

DtGt(a, b) == Instant(a) > Instant(b)

\* datetime.__eq__: a naive and an aware datetime are never equal.
DtEq(a, b) == Comparable(a, b) /\ Instant(a) = Instant(b)

\* Mutant: the window end is not clipped to the end date.
DtMinNoClip(a, b) == a

\* min(a, b): Python returns b only when b < a.
DtMin(a, b) == IF DtLt(b, a) THEN b ELSE a

\* d + timedelta(days=n): the offset is kept.
AddDays(d, n) == Dt(d.t + n * TicksPerDay, d.aware, d.off)

\* -------------------------------------------------------------- date input
\* A date argument is a datetime (kind "datetime", dt the value) or an
\* ISO-8601 string (kind "str", dt its wall-clock part, suffix its zone
\* suffix: "" for none, "Z", "+00:00" or "+12:00").
HalfDay == TicksPerDay \div 2

\* Mutant: the trailing Z is dropped instead of being read as +00:00.
ReplaceZDropped(suffix) == IF suffix = "Z" THEN "" ELSE suffix

\* str.replace('Z', '+00:00') on the suffix of the string.
ReplaceZ(suffix) == IF suffix = "Z" THEN "+00:00" ELSE suffix

\* datetime.fromisoformat on a string whose suffix is not "Z".
FromIsoFormat(t, suffix) ==
    CASE suffix = ""       -> Naive(t)
      [] suffix = "+00:00" -> Aware(t, 0)
      [] suffix = "+12:00" -> Aware(t, HalfDay)

ParseDate(x) ==
    IF x.kind = "str" THEN FromIsoFormat(x.dt.t, ReplaceZ(x.suffix)) ELSE x.dt

\* ------------------------------------------------------- response documents
\* A reading is <<timestamp, value>>.  A response document is a JSON object
\* that may hold a "data" key and a "readings" key.
Doc(has_data, data, has_readings, readings) ==
    [has_data |-> has_data, data |-> data,
     has_readings |-> has_readings, readings |-> readings]

\* batch_data.get("data", batch_data.get("readings", []))
ExtractReadings(doc) ==
    IF doc.has_data THEN doc.data
    ELSE IF doc.has_readings THEN doc.readings
    ELSE <<>>

\* Mutant: an element goes before the elements of equal key (not stable).
RECURSIVE InsertByKeyUnstable(_, _)
InsertByKeyUnstable(sorted, x) ==
    IF sorted = <<>> THEN <<x>>
    ELSE IF sorted[Len(sorted)][1] < x[1] THEN Append(sorted, x)
    ELSE Append(InsertByKeyUnstable(SubSeq(sorted, 1, Len(sorted) - 1), x),
                sorted[Len(sorted)])

\* list.sort(key=lambda x: x[0]) is stable: an element goes after every
\* element already placed whose key is not larger.
RECURSIVE InsertByKey(_, _)
InsertByKey(sorted, x) ==
    IF sorted = <<>> THEN <<x>>
    ELSE IF sorted[Len(sorted)][1] <= x[1] THEN Append(sorted, x)
    ELSE Append(InsertByKey(SubSeq(sorted, 1, Len(sorted) - 1), x),
                sorted[Len(sorted)])

RECURSIVE SortByTimestamp(_)
SortByTimestamp(s) ==
    IF s = <<>> THEN <<>>
    ELSE InsertByKey(SortByTimestamp(SubSeq(s, 1, Len(s) - 1)), s[Len(s)])

\* ------------------------------------------------------------------ client
\* Python truthiness of a credential: None and "" are falsy.
Truthy(x) == x # None /\ x # ""

\* `not self.token and not (self.username and self.password)`
CredentialsMissing(tok, user, pass) ==
    ~Truthy(tok) /\ ~(Truthy(user) /\ Truthy(pass))

\* Mutant: the client never authenticates on its own.
NeedsAuthNever(tok) == FALSE

\* `if not self.token: self.authenticate()`
NeedsAuth(tok) == ~Truthy(tok)

\* A request as the network sees it.
Request(method, path, tok, user, pass) ==
    [method |-> method, path |-> path, token |-> tok,
     username |-> user, password |-> pass]

\* authenticate(): POST {base}/auth with the username and password.
AuthRequest(user, pass) == Request("POST", "/auth", None, user, pass)

\* A data request: GET with the token header.
DataRequest(path, tok) == Request("GET", path, tok, None, None)

DataMethods == {"get_virtual_entities", "get_virtual_entity_resources", "get_readings"}

\* The URL path of each data-fetching method.
Path(m) ==
    CASE m = "get_virtual_entities"         -> "/virtualentity"
      [] m = "get_virtual_entity_resources" -> "/virtualentity/{id}/resources"
      [] m = "get_readings"                 -> "/resource/{id}/readings"

\* What the network answers: "ok" (2xx, JSON body), "conn" (no connection),
\* "http" (non-2xx status, JSON body), "http_badjson" (non-2xx status, body
\* not JSON), "badjson" (2xx, body not JSON).
FailureStatuses == {"conn", "http", "http_badjson", "badjson"}

\* authenticate() lets the requests exceptions through unchanged;
\* raise_for_status() runs before the body is read.
AuthError(status) ==
    CASE status = "conn"         -> "requests.ConnectionError"
      [] status = "http"         -> "requests.HTTPError"
      [] status = "http_badjson" -> "requests.HTTPError"
      [] status = "badjson"      -> "requests.JSONDecodeError"

\* _make_request: raise_for_status() before json(), then the except
\* clauses, in order.
MakeRequestError(status) ==
    CASE status = "conn"         -> "ConnectionError"
      [] status = "badjson"      -> "ValueError"
      [] status = "http"         -> "Exception"
      [] status = "http_badjson" -> "Exception"

MissingCredentialsError == "ValueError: No authentication token or credentials provided"

InvalidRangeError == "ValueError: Start date must be before end date"

VARIABLES
    pc,            \* position of the running call
    start_date,    \* get_readings_in_batches: argument, then parsed datetime
    end_date,      \* get_readings_in_batches: argument, then parsed datetime
    batch_days,    \* windows' length in days
    date_ranges,   \* _calculate_batch_date_ranges: windows built so far
    batch_start,   \* _calculate_batch_date_ranges: loop variable
    i,             \* get_readings_in_batches: windows dealt with so far
    all_readings,  \* get_readings_in_batches: the results container
    token,         \* GlowmarktClient.token
    username,      \* GlowmarktClient.username
    password,      \* GlowmarktClient.password
    net,           \* the requests sent during the running call, in order
    outstanding,   \* requests sent and not yet answered
    calls,         \* every adapter invocation of the retrieval, in order
    err,           \* the exception the call ended with, or None
    method,        \* the client method called directly, or None
    entry_token,   \* GlowmarktClient.token when that method was entered
    auth_answer,   \* the answer to that method's POST {base}/auth, if any
    data_answer,   \* the status of the answer to that method's data request
    ncalls,        \* direct client calls made so far
    tz,            \* the local zone's offset from UTC, in ticks
    init_dir,      \* the converter's output_dir as its constructor set it
    output_dir,    \* EnergyDataConverter.output_dir
    conv_op,       \* the converter operation that ran last, or None
    conv_in,       \* that operation's arguments
    merged,        \* the dictionary that operation built, in insertion order
    written,       \* what that operation wrote
    written_to,    \* the directory it wrote to, or None
    conv_err,      \* the exception that operation ended with, or None
    nconv          \* converter operations run so far

vars == <<pc, start_date, end_date, batch_days, date_ranges, batch_start, i,
          all_readings, token, username, password, net, outstanding, calls,
          err, method, entry_token, auth_answer, data_answer, ncalls,
          tz, init_dir, output_dir, conv_op, conv_in, merged, written,
          written_to, conv_err, nconv>>

directVars == <<method, entry_token, auth_answer, data_answer, ncalls>>

clientVars == <<token, username, password, net, outstanding, directVars>>

splitVars == <<date_ranges, batch_start>>

batchVars == <<start_date, end_date, batch_days, date_ranges, batch_start, i,
               all_readings, calls>>

retrievalVars == <<pc, err, batchVars, clientVars>>

convVars == <<tz, init_dir, output_dir, conv_op, conv_in, merged, written,
              written_to, conv_err, nconv>>

Answer(status, tok) == [status |-> status, token |-> tok]

NoAnswer == Answer("none", None)

InitDirect ==
    /\ method = None
    /\ entry_token = None
    /\ auth_answer = NoAnswer
    /\ data_answer = "none"
    /\ ncalls = 0

\* No converter is in use.
InitConvIdle ==
    /\ tz = 0
    /\ init_dir = None
    /\ output_dir = None
    /\ conv_op = None
    /\ conv_in = <<>>
    /\ merged = <<>>
    /\ written = <<>>
    /\ written_to = None
    /\ conv_err = None
    /\ nconv = 0

\* ---------------------------------------- _calculate_batch_date_ranges
\* datetime.min, in ticks: the earliest datetime there is.
DatetimeMin == 0 - DatetimeMinDays * TicksPerDay

\* The loop is followed for at most this many windows; only a batch_days
\* of 0, with which batch_start stays where it is, gets there.
MaxRanges == (MaxSplitEndDays + 1) * TicksPerDay + 1

\* Mutant: no special case for start_date == end_date.
SplitEntryNoSpecialCase ==
    /\ pc = "split"
    /\ date_ranges' = <<>>
    /\ batch_start' = start_date
    /\ pc' = "split_loop"
    /\ UNCHANGED <<start_date, end_date, batch_days, i, all_readings, calls, err>>
    /\ UNCHANGED clientVars
    /\ UNCHANGED convVars

\* Entry: the special case start_date == end_date, else batch_start = start.
SplitEntry ==
    /\ pc = "split"
    /\ IF DtEq(start_date, end_date)
       THEN /\ date_ranges' = <<<<start_date, end_date>>>>
            /\ pc' = "fetch"
            /\ UNCHANGED batch_start
       ELSE /\ date_ranges' = <<>>
            /\ batch_start' = start_date
            /\ pc' = "split_loop"
    /\ UNCHANGED <<start_date, end_date, batch_days, i, all_readings, calls, err>>
    /\ UNCHANGED clientVars
    /\ UNCHANGED convVars

\* batch_start + timedelta(days=batch_days) below datetime.min: the
\* addition raises OverflowError.
Overflows(d, n) == d.t + n * TicksPerDay < DatetimeMin

\* One test of `while batch_start < end_date` and, when it holds, one body.
SplitLoop ==
    /\ pc = "split_loop"
    /\ Len(date_ranges) < MaxRanges
    /\ IF DtLt(batch_start, end_date)
       THEN IF Overflows(batch_start, batch_days)
            THEN /\ pc' = "raised"
                 /\ err' = "OverflowError"
                 /\ UNCHANGED <<date_ranges, batch_start>>
            ELSE LET batch_end == DtMin(AddDays(batch_start, batch_days), end_date)
                 IN /\ date_ranges' = Append(date_ranges, <<batch_start, batch_end>>)
                    /\ IF DtEq(batch_end, end_date)
                       THEN pc' = "fetch" /\ UNCHANGED batch_start
                       ELSE pc' = "split_loop" /\ batch_start' = batch_end
                    /\ err' = err
       ELSE /\ pc' = "fetch"
            /\ UNCHANGED <<date_ranges, batch_start, err>>
    /\ UNCHANGED <<start_date, end_date, batch_days, i, all_readings, calls>>
    /\ UNCHANGED clientVars
    /\ UNCHANGED convVars

\* Window splitting called on its own: the start is naive or at UTC, the end
\* is of the same awareness (at UTC or at +12:00 when aware).
SplitDates ==
    { Naive(t) : t \in 0..(MaxSplitEndDays * TicksPerDay) }
    \cup { Aware(t, off) : t \in 0..(MaxSplitEndDays * TicksPerDay),
                           off \in {0, HalfDay} }

InitClientHeld ==
    /\ token = "held"
    /\ username = None
    /\ password = None
    /\ net = <<>>
    /\ outstanding = 0
    /\ InitDirect

InitSplit ==
    /\ pc = "split"
    /\ start_date \in { d \in SplitDates : d.t <= MaxSplitStart /\ d.off = 0 }
    /\ end_date \in { d \in SplitDates : Comparable(d, start_date) }
    /\ batch_days \in -1..MaxSplitBatchDays
    /\ date_ranges = <<>>
    /\ batch_start = start_date
    /\ i = 0
    /\ all_readings = <<>>
    /\ calls = <<>>
    /\ err = None
    /\ InitClientHeld
    /\ InitConvIdle

NextSplit == SplitEntry \/ SplitLoop

SpecSplit == InitSplit /\ [][NextSplit]_vars

\* ------------------------------------------- get_readings_in_batches
\* The date arguments: a datetime, or an ISO-8601 string given by its
\* wall-clock part and its zone suffix.
DateArg(kind, dt, suffix) == [kind |-> kind, dt |-> dt, suffix |-> suffix]

DateArgs ==
    { DateArg("datetime", d, "") :
        d \in { Naive(t) : t \in 0..MaxTick } \cup { Aware(t, 0) : t \in 0..MaxTick } }
    \cup { DateArg("str", Naive(t), sfx) :
             t \in 0..MaxTick, sfx \in {"", "Z", "+12:00"} }

\* The timestamp sequences a response document is built from.
TsSeqs ==
    UNION { [1..n -> 1..MaxTs] : n \in 0..MaxDocLen }

\* The k-th reading of the window with index w gets a value of its own: the
\* retriever never looks at a value, and equal timestamps stay apart.
MkReadings(ts, w) == [k \in 1..Len(ts) |-> <<ts[k], w * (MaxDocLen + 1) + k>>]

\* The documents the API may answer window w with: "data" alone with any
\* readings, "readings" alone (two readings, the later one first), both
\* keys, neither key.
Docs(w) ==
    { Doc(TRUE, MkReadings(ts, w), FALSE, <<>>) : ts \in TsSeqs }
    \cup { Doc(FALSE, <<>>, TRUE, MkReadings(<<MaxTs, 1>>, w)),
           Doc(TRUE, MkReadings(<<1>>, w), TRUE, MkReadings(<<MaxTs, 1>>, w)),
           Doc(FALSE, <<>>, FALSE, <<>>) }

NoDoc == Doc(FALSE, <<>>, FALSE, <<>>)

\* One adapter invocation as the retriever saw it end.
Call(window, outcome, doc) == [window |-> window, outcome |-> outcome, doc |-> doc]

Init ==
    /\ pc = "call"
    /\ start_date \in DateArgs
    /\ end_date \in DateArgs
    /\ batch_days \in -1..MaxBatchDays
    /\ date_ranges = <<>>
    /\ batch_start = Naive(0)
    /\ i = 0
    /\ all_readings = <<>>
    /\ calls = <<>>
    /\ err = None
    /\ token \in {None, "held"}
    /\ username \in IF token = None THEN {None, "user"} ELSE {None}
    /\ password \in IF username = None THEN {None} ELSE {None, "pw"}
    /\ net = <<>>
    /\ outstanding = 0
    /\ InitDirect
    /\ InitConvIdle

\* Lines 52-66: parse string dates, validate the range, then split.
Validate ==
    /\ pc = "call"
    /\ LET s == ParseDate(start_date)
           e == ParseDate(end_date)
       IN /\ start_date' = s
          /\ end_date' = e
          /\ IF ~Comparable(s, e)
             THEN pc' = "raised" /\ err' = "TypeError"
             ELSE IF DtGt(s, e)
             THEN pc' = "raised" /\ err' = InvalidRangeError
             ELSE pc' = "split" /\ err' = err
    /\ UNCHANGED <<batch_days, i, all_readings, calls>>
    /\ UNCHANGED splitVars
    /\ UNCHANGED clientVars
    /\ UNCHANGED convVars

\* Mutant: the first failing window ends the loop.
SwallowAndStop(e) ==
    <<Append(calls, Call(date_ranges[i + 1], e, NoDoc)), Len(date_ranges), "fetch">>

\* Mutant: a failing window is fetched again.
SwallowAndRetry(e) ==
    <<Append(calls, Call(date_ranges[i + 1], e, NoDoc)), i, "fetch">>

\* `except Exception`: log the error and go on with the next window.
\* Gives the retriever's next calls, i and pc.
Swallow(e) == <<Append(calls, Call(date_ranges[i + 1], e, NoDoc)), i + 1, "fetch">>

\* The loop head with a window left: client.get_readings is invoked; it
\* checks the credentials, then authenticates or sends the data request.
FetchBegin ==
    /\ pc = "fetch"
    /\ i < Len(date_ranges)
    /\ IF CredentialsMissing(token, username, password)
       THEN /\ calls' = Swallow(MissingCredentialsError)[1]
            /\ i' = Swallow(MissingCredentialsError)[2]
            /\ pc' = Swallow(MissingCredentialsError)[3]
            /\ UNCHANGED <<net, outstanding>>
       ELSE /\ net' = Append(net, IF ~Truthy(token)
                                  THEN AuthRequest(username, password)
                                  ELSE DataRequest("/resource/readings", token))
            /\ outstanding' = outstanding + 1
            /\ pc' = IF ~Truthy(token) THEN "auth_wait" ELSE "get_wait"
            /\ UNCHANGED <<calls, i>>
    /\ UNCHANGED <<start_date, end_date, batch_days, all_readings, err>>
    /\ UNCHANGED <<token, username, password, directVars>>
    /\ UNCHANGED splitVars
    /\ UNCHANGED convVars

\* The answer to the POST of authenticate(): the token is stored and the
\* data request is sent, or the exception reaches the retriever's handler.
BatchAuthResponse ==
    /\ pc = "auth_wait"
    /\ \E status \in {"ok"} \cup FailureStatuses, tok \in {"fresh", None} :
         /\ status # "ok" => tok = None
         /\ IF status = "ok"
            THEN /\ token' = tok
                 /\ net' = Append(net, DataRequest(Path("get_readings"), tok))
                 /\ outstanding' = outstanding
                 /\ pc' = "get_wait"
                 /\ UNCHANGED <<calls, i>>
            ELSE /\ calls' = Swallow(AuthError(status))[1]
                 /\ i' = Swallow(AuthError(status))[2]
                 /\ pc' = Swallow(AuthError(status))[3]
                 /\ outstanding' = outstanding - 1
                 /\ UNCHANGED <<token, net>>
    /\ UNCHANGED <<start_date, end_date, batch_days, all_readings, err>>
    /\ UNCHANGED <<username, password, directVars>>
    /\ UNCHANGED splitVars
    /\ UNCHANGED convVars

\* The answer to the data request: the readings are appended, or the
\* exception of _make_request reaches the retriever's handler.
BatchGetResponse ==
    /\ pc = "get_wait"
    /\ \E status \in {"ok"} \cup FailureStatuses, doc \in Docs(i) :
         /\ status # "ok" => doc = NoDoc
         /\ IF status = "ok"
            THEN /\ all_readings' = all_readings \o ExtractReadings(doc)
                 /\ calls' = Append(calls, Call(date_ranges[i + 1], "ok", doc))
                 /\ i' = i + 1
                 /\ pc' = "fetch"
            ELSE /\ calls' = Swallow(MakeRequestError(status))[1]
                 /\ i' = Swallow(MakeRequestError(status))[2]
                 /\ pc' = Swallow(MakeRequestError(status))[3]
                 /\ UNCHANGED all_readings
    /\ outstanding' = outstanding - 1
    /\ UNCHANGED <<start_date, end_date, batch_days, err>>
    /\ UNCHANGED <<token, username, password, net, directVars>>
    /\ UNCHANGED splitVars
    /\ UNCHANGED convVars

\* After the loop: sort in place and return.
Finish ==
    /\ pc = "fetch"
    /\ i >= Len(date_ranges)
    /\ all_readings' = SortByTimestamp(all_readings)
    /\ pc' = "done"
    /\ UNCHANGED <<start_date, end_date, batch_days, i, calls, err>>
    /\ UNCHANGED splitVars
    /\ UNCHANGED clientVars
    /\ UNCHANGED convVars

Next ==
    \/ Validate
    \/ SplitEntry
    \/ SplitLoop
    \/ FetchBegin
    \/ BatchAuthResponse
    \/ BatchGetResponse
    \/ Finish

Spec == Init /\ [][Next]_vars

\* ------------------------------------------------- direct client calls
\* authenticate(): the POST is sent with whatever username and password the
\* client holds.
CallAuthenticate ==
    /\ pc = "idle"
    /\ ncalls < MaxClientCalls
    /\ method' = "authenticate"
    /\ entry_token' = token
    /\ auth_answer' = NoAnswer
    /\ data_answer' = "none"
    /\ ncalls' = ncalls + 1
    /\ err' = None
    /\ net' = <<AuthRequest(username, password)>>
    /\ outstanding' = outstanding + 1
    /\ pc' = "c_auth_wait"
    /\ UNCHANGED <<token, username, password>>
    /\ UNCHANGED batchVars
    /\ UNCHANGED convVars

\* The common entry of the data-fetching methods: the credential check, then
\* authenticate() when no token is held, else the data request.
DataCall(m) ==
    /\ pc = "idle"
    /\ ncalls < MaxClientCalls
    /\ method' = m
    /\ entry_token' = token
    /\ auth_answer' = NoAnswer
    /\ data_answer' = "none"
    /\ ncalls' = ncalls + 1
    /\ IF CredentialsMissing(token, username, password)
       THEN /\ err' = MissingCredentialsError
            /\ net' = <<>>
            /\ pc' = "idle"
            /\ UNCHANGED outstanding
       ELSE /\ err' = None
            /\ net' = IF NeedsAuth(token)
                      THEN <<AuthRequest(username, password)>>
                      ELSE <<DataRequest(Path(m), token)>>
            /\ outstanding' = outstanding + 1
            /\ pc' = IF NeedsAuth(token) THEN "c_auth_wait" ELSE "c_get_wait"
    /\ UNCHANGED <<token, username, password>>
    /\ UNCHANGED batchVars
    /\ UNCHANGED convVars

CallGetVirtualEntities == DataCall("get_virtual_entities")

CallGetVirtualEntityResources == DataCall("get_virtual_entity_resources")

CallGetReadings == DataCall("get_readings")

\* The answer to the POST of authenticate(): on success the token of the
\* body (None without a "token" key) is stored, and a data-fetching method
\* goes on to its data request; a failure leaves as the requests exception.
ClientAuthResponse ==
    /\ pc = "c_auth_wait"
    /\ \E status \in {"ok"} \cup FailureStatuses, tok \in {"fresh", None} :
         /\ status # "ok" => tok = None
         /\ auth_answer' = Answer(status, tok)
         /\ IF status = "ok"
            THEN /\ token' = tok
                 /\ err' = None
                 /\ IF method = "authenticate"
                    THEN /\ pc' = "idle"
                         /\ outstanding' = outstanding - 1
                         /\ UNCHANGED net
                    ELSE /\ net' = Append(net, DataRequest(Path(method), tok))
                         /\ pc' = "c_get_wait"
                         /\ UNCHANGED outstanding
            ELSE /\ err' = AuthError(status)
                 /\ pc' = "idle"
                 /\ outstanding' = outstanding - 1
                 /\ UNCHANGED <<token, net>>
    /\ UNCHANGED <<username, password, method, entry_token, data_answer, ncalls>>
    /\ UNCHANGED batchVars
    /\ UNCHANGED convVars

\* The answer to the data request, through _make_request.
ClientGetResponse ==
    /\ pc = "c_get_wait"
    /\ \E status \in {"ok"} \cup FailureStatuses :
         /\ data_answer' = status
         /\ err' = IF status = "ok" THEN None ELSE MakeRequestError(status)
    /\ pc' = "idle"
    /\ outstanding' = outstanding - 1
    /\ UNCHANGED <<token, username, password, net>>
    /\ UNCHANGED <<method, entry_token, auth_answer, ncalls>>
    /\ UNCHANGED batchVars
    /\ UNCHANGED convVars

InitClient ==
    /\ pc = "idle"
    /\ token \in {None, "", "held"}
    /\ username \in {None, "", "user"}
    /\ password \in {None, "", "pw"}
    /\ net = <<>>
    /\ outstanding = 0
    /\ err = None
    /\ InitDirect
    /\ start_date = Naive(0)
    /\ end_date = Naive(0)
    /\ batch_days = 1
    /\ date_ranges = <<>>
    /\ batch_start = Naive(0)
    /\ i = 0
    /\ all_readings = <<>>
    /\ calls = <<>>
    /\ InitConvIdle

NextClient ==
    \/ CallAuthenticate
    \/ CallGetVirtualEntities
    \/ CallGetVirtualEntityResources
    \/ CallGetReadings
    \/ ClientAuthResponse
    \/ ClientGetResponse

SpecClient == InitClient /\ [][NextClient]_vars

\* --------------------------------------------- converter: JSON and time
\* Timestamps are counted in ticks of half a day (TicksPerDay); a
\* millisecond count is 1000 times the count of seconds in any unit.
\* 9999999999 seconds are 231481 ticks and a part of one, so a count of
\* ticks is above the threshold exactly when it is above 231481.
MsThreshold == 231481

\* datetime cannot hold an instant after the year 9999
\* (253402300799 seconds, 5865793 ticks).
MaxEpochTick == 5865793

DaysPerYear == 365

\* The cells of a reading as json.load gives them.
JNum(n) == [kind |-> "num", n |-> n]

JNull == [kind |-> "null", n |-> 0]

JStr(n) == [kind |-> "str", n |-> n]

JList(n) == [kind |-> "list", n |-> n]

\* isinstance(timestamp, (int, float))
IsNumeric(c) == c.kind = "num"

\* A list cannot be a dictionary key.
Hashable(c) == c.kind # "list"

\* One element of the readings array: a list of len cells, of which the
\* first two are kept, or something that is no list.
Row(ts, value) == [list |-> TRUE, len |-> 2, ts |-> ts, value |-> value]

ShortRow(ts) == [list |-> TRUE, len |-> 1, ts |-> ts, value |-> JNull]

NotAList == [list |-> FALSE, len |-> 0, ts |-> JNull, value |-> JNull]

\* isinstance(reading, list) and len(reading) >= 2
IsPair(row) == row.list /\ row.len >= 2

\* A loaded JSON file: the words of its resource name, the key its readings
\* are stored under ("data", "readings" or neither), and the readings.
File(name, key, rows) == [name |-> name, key |-> key, rows |-> rows]

\* data.get("data", data.get("readings", []))
GetReadings(file) ==
    IF file.key \in {"data", "readings"} THEN file.rows ELSE <<>>

\* extract_resource_type: the first word when it names a known type.
ExtractResourceType(name) ==
    IF name = <<>> THEN "energy"
    ELSE IF name[1] \in {"electricity", "gas", "water"} THEN name[1]
    ELSE "energy"

\* datetime.fromtimestamp(seconds): the local wall-clock time, or ValueError.
CanConvert(seconds) == seconds <= MaxEpochTick

FromTimestamp(seconds) == seconds + tz

\* strftime('%Y-%m-%d'): the year and the day within the year.
DateOf(local) ==
    [year |-> 1970 + (local \div TicksPerDay) \div DaysPerYear,
     day  |-> (local \div TicksPerDay) % DaysPerYear]

\* isoformat(): the date and the time of day.
IsoFormat(local) ==
    [kind |-> "iso", date |-> DateOf(local), time |-> local % TicksPerDay]

\* str(timestamp)
StrOf(c) == [kind |-> "str", of |-> c]

\* `timestamp / 1000 if timestamp > 9999999999 else timestamp`
TimeSeconds(n) == IF n > MsThreshold THEN n \div 1000 ELSE n

\* The timestamp_iso of a raw timestamp: numeric ones are converted, with
\* the stringified raw value on failure; others are stringified.
ToIso(c) ==
    IF IsNumeric(c)
    THEN IF CanConvert(TimeSeconds(c.n))
         THEN IsoFormat(FromTimestamp(TimeSeconds(c.n)))
         ELSE StrOf(c)
    ELSE StrOf(c)

\* ----------------------------------------------- converter: dictionaries
\* A dict is the sequence of its values in insertion order; each value
\* carries its key in the field "timestamp".
DictHas(d, k) == \E j \in 1..Len(d) : d[j].timestamp = k

DictIndex(d, k) == CHOOSE j \in 1..Len(d) : d[j].timestamp = k

DictGet(d, k) == d[DictIndex(d, k)]

\* d[rec.timestamp] = rec
DictSet(d, rec) ==
    IF DictHas(d, rec.timestamp)
    THEN [d EXCEPT ![DictIndex(d, rec.timestamp)] = rec]
    ELSE Append(d, rec)

DictKeys(d) == { d[j].timestamp : j \in 1..Len(d) }

\* sorted(d.items()): the keys are distinct, so the keys decide; numbers
\* and strings do not compare with each other, nor None with anything.
CanSort(d) ==
    \/ Len(d) <= 1
    \/ \A j \in 1..Len(d) : d[j].timestamp.kind = "num"
    \/ \A j \in 1..Len(d) : d[j].timestamp.kind = "str"

\* Mutant: the items are written in insertion order.
InsertByTimestampAppend(sorted, rec) == Append(sorted, rec)

RECURSIVE InsertByTimestamp(_, _)
InsertByTimestamp(sorted, rec) ==
    IF sorted = <<>> THEN <<rec>>
    ELSE IF sorted[Len(sorted)].timestamp.n <= rec.timestamp.n
    THEN Append(sorted, rec)
    ELSE Append(InsertByTimestamp(SubSeq(sorted, 1, Len(sorted) - 1), rec),
                sorted[Len(sorted)])

RECURSIVE SortedItems(_)
SortedItems(d) ==
    IF d = <<>> THEN <<>>
    ELSE InsertByTimestamp(SortedItems(SubSeq(d, 1, Len(d) - 1)), d[Len(d)])

\* ------------------------------- merge_consumption_and_cost_data
MergedReading(ts, iso, consumption, cost) ==
    [timestamp |-> ts, timestamp_iso |-> iso,
     consumption_value |-> consumption, cost_value |-> cost]

\* Mutant: the side without a reading is filled with 0.
CostOnlyReadingZero(ts, value) == MergedReading(ts, ToIso(ts), JNum(0), value)

\* Lines 75-80 and 100-105: the record of a timestamp first seen in the
\* consumption series, resp. in the cost series.
ConsumptionReading(ts, value) == MergedReading(ts, ToIso(ts), value, JNull)

CostOnlyReading(ts, value) == MergedReading(ts, ToIso(ts), JNull, value)

\* The state of a loop: the dictionary so far and the exception raised.
Acc(dict, error) == [dict |-> dict, error |-> error]

\* One pass of the loop over the consumption readings.
ConsumptionStep(acc, row) ==
    IF acc.error # None \/ ~IsPair(row) THEN acc
    ELSE IF ~Hashable(row.ts) THEN Acc(acc.dict, "TypeError")
    ELSE Acc(DictSet(acc.dict, ConsumptionReading(row.ts, row.value)), None)

\* One pass of the loop over the cost readings.
CostStep(acc, row) ==
    IF acc.error # None \/ ~IsPair(row) THEN acc
    ELSE IF ~Hashable(row.ts) THEN Acc(acc.dict, "TypeError")
    ELSE IF DictHas(acc.dict, row.ts)
    THEN Acc(DictSet(acc.dict,
                     [DictGet(acc.dict, row.ts) EXCEPT !.cost_value = row.value]),
             None)
    ELSE Acc(DictSet(acc.dict, CostOnlyReading(row.ts, row.value)), None)

RECURSIVE ConsumptionLoop(_, _)
ConsumptionLoop(acc, rows) ==
    IF rows = <<>> THEN acc
    ELSE ConsumptionLoop(ConsumptionStep(acc, Head(rows)), Tail(rows))

RECURSIVE CostLoop(_, _)
CostLoop(acc, rows) ==
    IF rows = <<>> THEN acc
    ELSE CostLoop(CostStep(acc, Head(rows)), Tail(rows))

\* merge_consumption_and_cost_data: the merged readings and the exception.
MergeData(consumption, cost) ==
    CostLoop(ConsumptionLoop(Acc(<<>>, None), GetReadings(consumption)),
             GetReadings(cost))

\* The resource_type of the metadata returned with them.
MergedType(consumption) == ExtractResourceType(consumption.name)

\* --------------------------------------------------- convert_to_jsonl
\* Lines 170-183: the record written for a row.
JsonlRecord(row) ==
    [timestamp |-> row.ts, timestamp_iso |-> ToIso(row.ts), value |-> row.value]

\* Lines 153-186: one record per row that is a list of two cells or more.
RECURSIVE ConvertRows(_)
ConvertRows(rows) ==
    IF rows = <<>> THEN <<>>
    ELSE (IF IsPair(Head(rows)) THEN <<JsonlRecord(Head(rows))>> ELSE <<>>)
         \o ConvertRows(Tail(rows))

\* --------------------------------------- find_matching_resource_files
\* A file of the directory: its name is {ftype}_{category}_{range}.json.
DirFile(ftype, category, range, file) ==
    [ftype |-> ftype, category |-> category, range |-> range, file |-> file]

\* f"{resource_type}_{date_range}"
FileKey(f) == <<f.ftype, f.range>>

\* cost_files_by_key[file_key], when there is one.
HasCost(dir, key) ==
    \E j \in 1..Len(dir) : dir[j].category = "cost" /\ FileKey(dir[j]) = key

CostOf(dir, key) ==
    dir[CHOOSE j \in 1..Len(dir) :
            dir[j].category = "cost" /\ FileKey(dir[j]) = key].file

\* Lines 269-275: the consumption files, in the order found, that have a
\* cost file of the same key.
RECURSIVE MatchingPairs(_, _)
MatchingPairs(dir, rest) ==
    IF rest = <<>> THEN <<>>
    ELSE (IF Head(rest).category = "consumption" /\ HasCost(dir, FileKey(Head(rest)))
          THEN << <<Head(rest).file, CostOf(dir, FileKey(Head(rest)))>> >>
          ELSE <<>>)
         \o MatchingPairs(dir, Tail(rest))

FindMatchingResourceFiles(dir) == MatchingPairs(dir, dir)

\* ----------------------------- combine_all_resources_into_single_file
\* f"{resource_type}_consumption", f"{resource_type}_cost"
FieldName(rtype, category) == <<rtype, category>>

\* Lines 369-373: the record a timestamp gets when it is first seen.
NewCombined(reading) ==
    [timestamp |-> reading.timestamp, timestamp_iso |-> reading.timestamp_iso,
     fields |-> << >>]

\* Lines 375-376: the two fields of the pair's resource type are set.
SetFields(rec, rtype, reading) ==
    [rec EXCEPT !.fields =
        [f \in DOMAIN rec.fields
               \cup {FieldName(rtype, "consumption"), FieldName(rtype, "cost")} |->
            IF f = FieldName(rtype, "consumption") THEN reading.consumption_value
            ELSE IF f = FieldName(rtype, "cost") THEN reading.cost_value
            ELSE rec.fields[f]]]

\* Lines 368-376: the readings of one merged pair go into the combined dict.
RECURSIVE CombineReadings(_, _, _)
CombineReadings(combined, rtype, readings) ==
    IF readings = <<>> THEN combined
    ELSE LET r == Head(readings)
             old == IF DictHas(combined, r.timestamp)
                    THEN DictGet(combined, r.timestamp)
                    ELSE NewCombined(r)
         IN CombineReadings(DictSet(combined, SetFields(old, rtype, r)),
                            rtype, Tail(readings))

\* Lines 362-376: the loop over the pairs; a failing merge ends it.
RECURSIVE CombinePairs(_, _)
CombinePairs(acc, pairs) ==
    IF pairs = <<>> \/ acc.error # None THEN acc
    ELSE LET m == MergeData(Head(pairs)[1], Head(pairs)[2])
         IN IF m.error # None THEN Acc(acc.dict, m.error)
            ELSE CombinePairs(
                   Acc(CombineReadings(acc.dict, MergedType(Head(pairs)[1]), m.dict),
                       None),
                   Tail(pairs))

\* Lines 359-399 for the pairs found: the combined dict, then its items
\* sorted for writing; sorted() raises TypeError on keys of mixed types.
CombineAll(pairs) ==
    LET acc == CombinePairs(Acc(<<>>, None), pairs)
    IN IF acc.error # None THEN [dict |-> acc.dict, lines |-> <<>>, error |-> acc.error]
       ELSE IF ~CanSort(acc.dict)
       THEN [dict |-> acc.dict, lines |-> <<>>, error |-> "TypeError"]
       ELSE [dict |-> acc.dict, lines |-> SortedItems(acc.dict), error |-> None]

\* ---------------------------------------------- convert_to_yearly_jsonl
\* One entry of daily_data / yearly_data[year]: the sums and the count of a
\* calendar day.
DayEntry(date, consumption, cost, count) ==
    [date |-> date, consumption_value |-> consumption, cost_value |-> cost,
     count |-> count]

DayHas(days, date) == \E j \in 1..Len(days) : days[j].date = date

DayIndex(days, date) == CHOOSE j \in 1..Len(days) : days[j].date = date

\* defaultdict: a day not seen yet starts with sums and count 0.
DayGet(days, date) ==
    IF DayHas(days, date) THEN days[DayIndex(days, date)]
    ELSE DayEntry(date, 0, 0, 0)

DaySet(days, entry) ==
    IF DayHas(days, entry.date)
    THEN [days EXCEPT ![DayIndex(days, entry.date)] = entry]
    ELSE Append(days, entry)

\* Mutant: a value replaces the sum so far.
AddValueLast(total, cell) == IF cell.kind = "null" THEN total ELSE cell.n

\* `if reading[...] is not None: daily_data[day][...] += reading[...]`
AddValue(total, cell) == IF cell.kind = "null" THEN total ELSE total + cell.n

\* _group_and_sum_by_day, one reading: datetime.fromtimestamp(ts) takes the
\* raw key; it raises TypeError on a key that is no number and ValueError
\* on one beyond the year 9999.
GroupStep(acc, reading) ==
    IF acc.error # None THEN acc
    ELSE IF ~IsNumeric(reading.timestamp) THEN Acc(acc.dict, "TypeError")
    ELSE IF ~CanConvert(reading.timestamp.n) THEN Acc(acc.dict, "ValueError")
    ELSE LET date == DateOf(FromTimestamp(reading.timestamp.n))
             old == DayGet(acc.dict, date)
         IN Acc(DaySet(acc.dict,
                       DayEntry(date,
                                AddValue(old.consumption_value, reading.consumption_value),
                                AddValue(old.cost_value, reading.cost_value),
                                old.count + 1)),
                None)

RECURSIVE GroupAndSumByDay(_, _)
GroupAndSumByDay(acc, readings) ==
    IF readings = <<>> THEN acc
    ELSE GroupAndSumByDay(GroupStep(acc, Head(readings)), Tail(readings))

\* Lines 33-37: the days of one pair are added to yearly_data.
RECURSIVE AddDaily(_, _)
AddDaily(yearly, daily) ==
    IF daily = <<>> THEN yearly
    ELSE LET d == Head(daily)
             old == DayGet(yearly, d.date)
         IN AddDaily(DaySet(yearly,
                            DayEntry(d.date,
                                     old.consumption_value + d.consumption_value,
                                     old.cost_value + d.cost_value,
                                     old.count + d.count)),
                     Tail(daily))

\* Lines 29-37: the loop over the file pairs; a failing merge or grouping
\* ends it.
RECURSIVE YearlyPairs(_, _)
YearlyPairs(acc, pairs) ==
    IF pairs = <<>> \/ acc.error # None THEN acc
    ELSE LET m == MergeData(Head(pairs)[1], Head(pairs)[2])
             g == GroupAndSumByDay(Acc(<<>>, None), m.dict)
         IN IF m.error # None THEN Acc(acc.dict, m.error)
            ELSE IF g.error # None THEN Acc(acc.dict, g.error)
            ELSE YearlyPairs(Acc(AddDaily(acc.dict, g.dict), None), Tail(pairs))

\* Date strings sort as (year, day of the year).
DateLe(a, b) == a.year < b.year \/ (a.year = b.year /\ a.day <= b.day)

RECURSIVE InsertByDate(_, _)
InsertByDate(sorted, entry) ==
    IF sorted = <<>> THEN <<entry>>
    ELSE IF DateLe(sorted[Len(sorted)].date, entry.date) THEN Append(sorted, entry)
    ELSE Append(InsertByDate(SubSeq(sorted, 1, Len(sorted) - 1), entry),
                sorted[Len(sorted)])

RECURSIVE SortedDays(_)
SortedDays(days) ==
    IF days = <<>> THEN <<>>
    ELSE InsertByDate(SortedDays(SubSeq(days, 1, Len(days) - 1)), days[Len(days)])

\* Lines 53-58: the line written for a day.
YearlyLine(entry) ==
    [date |-> entry.date, consumption_total |-> entry.consumption_value,
     cost_total |-> entry.cost_value, reading_count |-> entry.count]

DaysOfYear(days, year) == SelectSeq(days, LAMBDA e : e.date.year = year)

RECURSIVE YearlyLines(_)
YearlyLines(sorted) ==
    IF sorted = <<>> THEN <<>>
    ELSE <<YearlyLine(Head(sorted))>> \o YearlyLines(Tail(sorted))

YearlyFile(days, year) ==
    [year |-> year, lines |-> YearlyLines(SortedDays(DaysOfYear(days, year)))]

\* Lines 47-60: one file per key of yearly_data, in the order the years
\* were first met.
RECURSIVE YearlyFiles(_, _, _)
YearlyFiles(days, rest, done) ==
    IF rest = <<>> THEN <<>>
    ELSE IF Head(rest).date.year \in done THEN YearlyFiles(days, Tail(rest), done)
    ELSE <<YearlyFile(days, Head(rest).date.year)>>
         \o YearlyFiles(days, Tail(rest), done \cup {Head(rest).date.year})

\* convert_to_yearly_jsonl without the assignment of output_dir.
ConvertToYearly(pairs) ==
    LET acc == YearlyPairs(Acc(<<>>, None), pairs)
    IN IF acc.error # None THEN [files |-> <<>>, error |-> acc.error]
       ELSE [files |-> YearlyFiles(acc.dict, acc.dict, {}), error |-> None]

\* ------------------------------ N3rgyCSVClient._merge_json_files_into_jsonl
\* A JSON file as transform_csv_to_json writes it: the words of its
\* resource_classifier and its readings, pairs of a timestamp and a number.
N3File(classifier, readings) == [classifier |-> classifier, readings |-> readings]

\* classifier_parts[0]
EnergyType(file) == file.classifier[1]

\* 'cost' if 'cost' in resource_classifier else 'consumption'
DataCategory(file) ==
    IF \E j \in 1..Len(file.classifier) : file.classifier[j] = "cost"
    THEN "cost" ELSE "consumption"

\* A None in the list of paths.
NoPath == N3File(<<>>, <<>>)

\* The place of a new category in the iteration over energy_resource_data:
\* behind the categories of its energy type, which keeps the place it got
\* when it was first met.
PlaceOf(loaded, f) ==
    LET sameType == { j \in 1..Len(loaded) : EnergyType(loaded[j]) = EnergyType(f) }
    IN IF sameType = {} THEN Len(loaded)
       ELSE CHOOSE j \in sameType : \A k \in sameType : k <= j

\* energy_resource_data[energy_type][data_category] = resource_data: a file
\* takes the place of an earlier one of its type and category.
RECURSIVE LoadFiles(_, _)
LoadFiles(loaded, paths) ==
    IF paths = <<>> THEN loaded
    ELSE IF Head(paths) = NoPath THEN LoadFiles(loaded, Tail(paths))
    ELSE LET f == Head(paths)
             same(g) == EnergyType(g) = EnergyType(f) /\ DataCategory(g) = DataCategory(f)
         IN LoadFiles(
              IF \E j \in 1..Len(loaded) : same(loaded[j])
              THEN [j \in 1..Len(loaded) |-> IF same(loaded[j]) THEN f ELSE loaded[j]]
              ELSE SubSeq(loaded, 1, PlaceOf(loaded, f)) \o <<f>>
                   \o SubSeq(loaded, PlaceOf(loaded, f) + 1, Len(loaded)),
              Tail(paths))

\* Lines 313-321: one reading goes into readings_by_timestamp.
CollectReading(dict, file, reading) ==
    LET old == IF DictHas(dict, reading[1]) THEN DictGet(dict, reading[1])
               ELSE [timestamp |-> reading[1],
                     timestamp_iso |-> IsoFormat(FromTimestamp(reading[1])),
                     fields |-> << >>]
        name == FieldName(EnergyType(file), DataCategory(file))
    IN DictSet(dict,
               [old EXCEPT !.fields =
                   [f \in DOMAIN old.fields \cup {name} |->
                       IF f = name THEN reading[2] ELSE old.fields[f]]])

RECURSIVE CollectReadings(_, _, _)
CollectReadings(dict, file, readings) ==
    IF readings = <<>> THEN dict
    ELSE CollectReadings(CollectReading(dict, file, Head(readings)), file,
                         Tail(readings))

RECURSIVE CollectFiles(_, _)
CollectFiles(dict, loaded) ==
    IF loaded = <<>> THEN dict
    ELSE CollectFiles(CollectReadings(dict, Head(loaded), Head(loaded).readings),
                      Tail(loaded))

FourFields ==
    { FieldName(t, c) : t \in {"electricity", "gas"}, c \in {"consumption", "cost"} }

\* Lines 355-360: the four fields exist, with 0 where there is no value.
EnsureAllFields(rec) ==
    [rec EXCEPT !.fields =
        [f \in DOMAIN rec.fields \cup FourFields |->
            IF f \in DOMAIN rec.fields THEN rec.fields[f] ELSE 0]]

\* sorted(readings_by_timestamp.keys()): the timestamps are integers.
RECURSIVE InsertByKeyN3(_, _)
InsertByKeyN3(sorted, rec) ==
    IF sorted = <<>> THEN <<rec>>
    ELSE IF sorted[Len(sorted)].timestamp <= rec.timestamp THEN Append(sorted, rec)
    ELSE Append(InsertByKeyN3(SubSeq(sorted, 1, Len(sorted) - 1), rec),
                sorted[Len(sorted)])

RECURSIVE SortedN3(_)
SortedN3(d) ==
    IF d = <<>> THEN <<>>
    ELSE InsertByKeyN3(SortedN3(SubSeq(d, 1, Len(d) - 1)), d[Len(d)])

\* _merge_json_files_into_jsonl: the lines written.
MergeJsonFiles(paths) ==
    LET sorted == SortedN3(CollectFiles(<<>>, LoadFiles(<<>>, paths)))
    IN [j \in 1..Len(sorted) |-> EnsureAllFields(sorted[j])]

\* ------------------------------------------------- converter: operations
\* The retrieval side is not in use.
InitRetrievalIdle ==
    /\ pc = "idle"
    /\ err = None
    /\ start_date = Naive(0)
    /\ end_date = Naive(0)
    /\ batch_days = 1
    /\ date_ranges = <<>>
    /\ batch_start = Naive(0)
    /\ i = 0
    /\ all_readings = <<>>
    /\ calls = <<>>
    /\ InitClientHeld

\* EnergyDataConverter(output_dir), lines 14-16, before its first call.
InitConverter ==
    /\ tz \in {0, HalfDay}
    /\ \E arg \in {None, "A"} :
         init_dir = IF Truthy(arg) THEN arg ELSE "data/processed"
    /\ output_dir = init_dir
    /\ conv_op = None
    /\ merged = <<>>
    /\ written = <<>>
    /\ written_to = None
    /\ conv_err = None
    /\ nconv = 0

SeqsOver(S, n) == UNION { [1..k -> S] : k \in 0..n }

ElectricityConsumption == <<"electricity", "consumption">>

ElectricityCost == <<"electricity", "cost">>

GasConsumption == <<"gas", "consumption">>

GasCost == <<"gas", "cost">>

\* The rows of a consumption file: readings, one of them with a value of 0,
\* one with a null value at a timestamp met before, one in milliseconds,
\* one with a string and one with a nested list as timestamp, a list of one
\* cell, and an element that is no list.
ConsumptionRows ==
    { Row(JNum(1), JNum(5)), Row(JNum(2), JNum(0)), Row(JNum(1), JNull),
      Row(JNum(232000), JNum(7)), Row(JStr(0), JNum(5)), Row(JList(0), JNum(5)),
      ShortRow(JNum(1)), NotAList }

CostRows ==
    { Row(JNum(1), JNum(3)), Row(JNum(3), JNum(0)), Row(JNum(232000), JNull) }

ConsumptionFiles ==
    { File(ElectricityConsumption, "data", rows) :
        rows \in SeqsOver(ConsumptionRows, MaxRows) }
    \cup { File(ElectricityConsumption, "none", <<>>) }

CostFiles ==
    { File(ElectricityCost, "readings", rows) : rows \in SeqsOver(CostRows, MaxRows) }

\* A converter and the two files one of its operations is called with.
InitMerge ==
    /\ InitConverter
    /\ conv_in \in [consumption : ConsumptionFiles, cost : CostFiles]
    /\ InitRetrievalIdle

\* merge_consumption_and_cost_data(consumption_file, cost_file)
MergeConsumptionAndCostData ==
    /\ conv_op = None
    /\ LET m == MergeData(conv_in.consumption, conv_in.cost)
       IN /\ merged' = IF m.error = None THEN m.dict ELSE <<>>
          /\ conv_err' = m.error
    /\ conv_op' = "merge_consumption_and_cost_data"
    /\ nconv' = nconv + 1
    /\ UNCHANGED <<tz, init_dir, output_dir, conv_in, written, written_to>>
    /\ UNCHANGED retrievalVars

\* convert_to_jsonl(consumption_file): the lines go to a file in
\* self.output_dir.
ConvertToJsonl ==
    /\ conv_op = None
    /\ written' = ConvertRows(GetReadings(conv_in.consumption))
    /\ written_to' = output_dir
    /\ conv_err' = None
    /\ conv_op' = "convert_to_jsonl"
    /\ nconv' = nconv + 1
    /\ UNCHANGED <<tz, init_dir, output_dir, conv_in, merged>>
    /\ UNCHANGED retrievalVars

NextMerge == MergeConsumptionAndCostData \/ ConvertToJsonl

SpecMerge == InitMerge /\ [][NextMerge]_vars

\* The files a directory may hold: a pair for electricity, a pair for gas
\* (its cost file with numeric timestamps or with a string one), and a
\* second pair for electricity with a later date range.
DirFiles ==
    { DirFile("electricity", "consumption", "r1",
              File(ElectricityConsumption, "data",
                   <<Row(JNum(1), JNum(5)), Row(JNum(2), JNum(0))>>)),
      DirFile("electricity", "cost", "r1",
              File(ElectricityCost, "data", <<Row(JNum(1), JNum(3))>>)),
      DirFile("gas", "consumption", "r1",
              File(GasConsumption, "readings",
                   <<Row(JNum(3), JNull), Row(JNum(2), JNum(7))>>)),
      DirFile("gas", "cost", "r1",
              File(GasCost, "readings", <<Row(JNum(3), JNum(4))>>)),
      DirFile("gas", "cost", "r1",
              File(GasCost, "readings", <<Row(JStr(0), JNum(4))>>)),
      DirFile("electricity", "consumption", "r2",
              File(ElectricityConsumption, "data", <<Row(JNum(2), JNum(9))>>)),
      DirFile("electricity", "cost", "r2",
              File(ElectricityCost, "data", <<Row(JNum(4), JNum(1))>>)) }

FileName(f) == <<f.ftype, f.category, f.range>>

\* directory.glob("*.json"): files of distinct names, in any order.
Directories ==
    { dir \in SeqsOver(DirFiles, MaxDirFiles) :
        \A a, b \in 1..Len(dir) : a # b => FileName(dir[a]) # FileName(dir[b]) }

\* A converter and the directory it is to combine.
InitCombine ==
    /\ InitConverter
    /\ conv_in \in [directory : Directories]
    /\ InitRetrievalIdle

\* combine_all_resources_into_single_file(directory): nothing is written
\* without a matching pair; else the file goes to self.output_dir.
CombineAllResourcesIntoSingleFile ==
    /\ conv_op = None
    /\ LET pairs == FindMatchingResourceFiles(conv_in.directory)
           r == CombineAll(pairs)
       IN IF pairs = <<>>
          THEN /\ merged' = <<>>
               /\ written' = <<>>
               /\ written_to' = None
               /\ conv_err' = None
          ELSE /\ merged' = r.dict
               /\ written' = r.lines
               /\ written_to' = IF r.error = None THEN output_dir ELSE None
               /\ conv_err' = r.error
    /\ conv_op' = "combine_all_resources_into_single_file"
    /\ nconv' = nconv + 1
    /\ UNCHANGED <<tz, init_dir, output_dir, conv_in>>
    /\ UNCHANGED retrievalVars

NextCombine == CombineAllResourcesIntoSingleFile

SpecCombine == InitCombine /\ [][NextCombine]_vars

NoReadings(name) == File(name, "data", <<>>)

\* The file pairs given to convert_to_yearly_jsonl: two readings within a
\* day and a half; readings a year later and a null value; a reading in
\* milliseconds; one in milliseconds beyond the year 9999 when read as
\* seconds.
YearlyPairSet ==
    { <<File(ElectricityConsumption, "data",
             <<Row(JNum(0), JNum(5)), Row(JNum(1), JNum(2))>>),
        File(ElectricityCost, "data", <<Row(JNum(1), JNum(3))>>)>>,
      <<File(ElectricityConsumption, "data",
             <<Row(JNum(730), JNum(4)), Row(JNum(1), JNull)>>),
        File(ElectricityCost, "data", <<Row(JNum(731), JNum(6))>>)>>,
      <<File(ElectricityConsumption, "data", <<Row(JNum(232000), JNum(7))>>),
        NoReadings(ElectricityCost)>>,
      <<File(ElectricityConsumption, "data", <<Row(JNum(6000000), JNum(1))>>),
        NoReadings(ElectricityCost)>> }

\* A converter that operations are called on one after the other.
InitYearly ==
    /\ InitConverter
    /\ conv_in = <<>>
    /\ InitRetrievalIdle

\* convert_to_yearly_jsonl(file_pairs, output_dir): a given output_dir is
\* stored in self.output_dir before anything else, and the files go to
\* self.output_dir.
ConvertToYearlyJsonl ==
    /\ nconv < MaxConvCalls
    /\ \E pairs \in SeqsOver(YearlyPairSet, MaxPairs), arg \in {None, "B"} :
         \E r \in {ConvertToYearly(pairs)} :
            /\ conv_in' = [file_pairs |-> pairs, output_dir |-> arg]
            /\ output_dir' = IF Truthy(arg) THEN arg ELSE output_dir
            /\ written' = r.files
            /\ written_to' = IF r.files = <<>> THEN None ELSE output_dir'
            /\ conv_err' = r.error
    /\ conv_op' = "convert_to_yearly_jsonl"
    /\ merged' = <<>>
    /\ nconv' = nconv + 1
    /\ UNCHANGED <<tz, init_dir>>
    /\ UNCHANGED retrievalVars

\* combine_consumption_and_cost(consumption_file, cost_file) without an
\* output_file: the sorted merged readings go to a file in self.output_dir.
CombineConsumptionAndCost ==
    /\ nconv < MaxConvCalls
    /\ \E pair \in YearlyPairSet :
         LET m == MergeData(pair[1], pair[2])
         IN /\ conv_in' = [file_pairs |-> <<pair>>, output_dir |-> None]
            /\ merged' = m.dict
            /\ written' = IF m.error = None /\ CanSort(m.dict)
                          THEN SortedItems(m.dict) ELSE <<>>
            /\ written_to' = IF m.error = None THEN output_dir ELSE None
            /\ conv_err' = IF m.error # None THEN m.error
                           ELSE IF CanSort(m.dict) THEN None ELSE "TypeError"
    /\ conv_op' = "combine_consumption_and_cost"
    /\ nconv' = nconv + 1
    /\ UNCHANGED <<tz, init_dir, output_dir>>
    /\ UNCHANGED retrievalVars

NextYearly == ConvertToYearlyJsonl \/ CombineConsumptionAndCost

SpecYearly == InitYearly /\ [][NextYearly]_vars

\* --------------------------------------------- N3rgyCSVClient: operations
\* The JSON files given to create_jsonl_from_json_files: electricity
\* consumption of two months, electricity cost, gas consumption, gas cost.
N3Files ==
    { N3File(<<"electricity", "consumption">>, << <<1, 5>>, <<2, 0>> >>),
      N3File(<<"electricity", "consumption">>, << <<3, 7>> >>),
      N3File(<<"electricity", "consumption", "cost">>, << <<1, 3>> >>),
      N3File(<<"gas", "consumption">>, << <<3, 1>>, <<1, 2>> >>),
      N3File(<<"gas", "consumption", "cost">>, << <<2, 4>> >>),
      NoPath }

\* N3rgyCSVClient(), lines 17-29, and the paths it is to combine.
InitN3rgy ==
    /\ tz \in {0, HalfDay}
    /\ init_dir = "./processed"
    /\ output_dir = init_dir
    /\ conv_op = None
    /\ conv_in \in [source_json_paths : SeqsOver(N3Files, MaxFiles)]
    /\ merged = <<>>
    /\ written = <<>>
    /\ written_to = None
    /\ conv_err = None
    /\ nconv = 0
    /\ InitRetrievalIdle

\* create_jsonl_from_json_files(source_json_paths)
CreateJsonlFromJsonFiles ==
    /\ conv_op = None
    /\ merged' = CollectFiles(<<>>, LoadFiles(<<>>, conv_in.source_json_paths))
    /\ written' = MergeJsonFiles(conv_in.source_json_paths)
    /\ conv_op' = "create_jsonl_from_json_files"
    /\ written_to' = output_dir
    /\ conv_err' = None
    /\ nconv' = nconv + 1
    /\ UNCHANGED <<tz, init_dir, output_dir, conv_in>>
    /\ UNCHANGED retrievalVars

NextN3rgy == CreateJsonlFromJsonFiles

SpecN3rgy == InitN3rgy /\ [][NextN3rgy]_vars

\* ------------------------------------------------------------------ floats
\* A float is [m, e], the number m * 2^e with 2^(MantBits-1) <= m < 2^MantBits,
\* or [0, 0].
RECURSIVE Pow2(_)
Pow2(n) == IF n = 0 THEN 1 ELSE 2 * Pow2(n - 1)

Float(m, e) == [m |-> m, e |-> e]

\* Round to nearest, ties to even, of num / den with its significand in
\* range.
RoundNearest(num, den, e) ==
    LET q == num \div den
        r == num % den
        m == IF 2 * r > den \/ (2 * r = den /\ q % 2 = 1) THEN q + 1 ELSE q
    IN IF m = Pow2(MantBits) THEN Float(Pow2(MantBits - 1), e + 1) ELSE Float(m, e)

\* The float nearest to (num / den) * 2^e.
RECURSIVE Nearest(_, _, _)
Nearest(num, den, e) ==
    IF num = 0 THEN Float(0, 0)
    ELSE IF num >= den * Pow2(MantBits) THEN Nearest(num, den * 2, e + 1)
    ELSE IF num < den * Pow2(MantBits - 1) THEN Nearest(num * 2, den, e - 1)
    ELSE RoundNearest(num, den, e)

RECURSIVE Pow10(_)
Pow10(k) == IF k = 0 THEN 1 ELSE 10 * Pow10(k - 1)

\* float("n with k decimals")
ParseFloat(n, k) == Nearest(n, Pow10(k), 0)

\* f * 100, rounded once more.
Times100(f) == Nearest(f.m * 100, 1, f.e)

\* ---------------------------------- N3rgyCSVClient.transform_csv_to_json
\* The fields of a CSV row as csv.reader gives them: a time of the form
\* '%Y-%m-%d %H:%M' (t its local wall-clock tick), a decimal number n with k
\* decimals, an empty string, a blank string, the header's text of the
\* consumption or of the cost column, or some other text.
Cell(kind, n, k) == [kind |-> kind, n |-> n, k |-> k]

TimeCell(t) == Cell("time", t, 0)

NumCell(n, k) == Cell("num", n, k)

Empty == Cell("empty", 0, 0)

Blank == Cell("blank", 0, 0)

ConsumptionHeader == Cell("energyConsumption (kWh)", 0, 0)

CostHeader == Cell("current GBP/day", 0, 0)

Text == Cell("text", 0, 0)

\* Lines 146-154: the rows the loop passes over before it parses anything.
PassedOver(row) ==
    \/ Len(row) < 2
    \/ row[2] = Empty
    \/ row[2] = ConsumptionHeader

\* strptime and float raise ValueError on what they cannot parse.
ParsesAsTime(c) == c.kind = "time"

\* Mutant: float() takes any text.
ParsesAsFloatAnything(c) == TRUE

ParsesAsFloat(c) == c.kind = "num"

\* int(timestamp_datetime.timestamp()): the local wall-clock time as an
\* instant.
UnixTimestamp(c) == c.n - tz

\* Line 168: whether a cost is taken from the row.
HasCostField(row, extract_cost_data) ==
    /\ extract_cost_data
    /\ Len(row) > 2
    /\ row[3] # Empty
    /\ row[3] # CostHeader
    /\ row[3] # Blank

\* The loop's variables.
CsvAcc(consumption, cost, earliest, latest) ==
    [consumption |-> consumption, cost |-> cost,
     earliest |-> earliest, latest |-> latest]

NoTime == [kind |-> "none", n |-> 0]

LocalTime(t) == [kind |-> "datetime", n |-> t]

\* Lines 145-173, one row: the statements of the try block up to the one
\* that raises.
RowStep(acc, row, extract_cost_data) ==
    IF PassedOver(row) THEN acc
    ELSE IF ~ParsesAsTime(row[1]) THEN acc
    ELSE LET ts == UnixTimestamp(row[1])
             dated == [acc EXCEPT
                         !.earliest = IF acc.earliest = NoTime \/ row[1].n < acc.earliest.n
                                      THEN LocalTime(row[1].n) ELSE acc.earliest,
                         !.latest = IF acc.latest = NoTime \/ row[1].n > acc.latest.n
                                    THEN LocalTime(row[1].n) ELSE acc.latest]
         IN IF ~ParsesAsFloat(row[2]) THEN dated
            ELSE LET kept == [dated EXCEPT !.consumption =
                                Append(acc.consumption,
                                       <<ts, ParseFloat(row[2].n, row[2].k)>>)]
                 IN IF HasCostField(row, extract_cost_data) /\ ParsesAsFloat(row[3])
                    THEN [kept EXCEPT !.cost =
                             Append(acc.cost,
                                    <<ts, Times100(ParseFloat(row[3].n, row[3].k))>>)]
                    ELSE kept

RECURSIVE CsvRowsLoop(_, _, _)
CsvRowsLoop(acc, rows, extract_cost_data) ==
    IF rows = <<>> THEN acc
    ELSE CsvRowsLoop(RowStep(acc, Head(rows), extract_cost_data), Tail(rows),
                     extract_cost_data)

\* Lines 176-186 and 212-222: a document. Its start_date and end_date are
\* the loop's earliest and latest times, "" when there is none.
CsvDocument(energy_type, category, acc) ==
    [classifier |-> IF category = "cost" THEN <<energy_type, "consumption", "cost">>
                    ELSE <<energy_type, "consumption">>,
     start_date |-> acc.earliest,
     end_date |-> acc.latest,
     readings |-> IF category = "cost" THEN acc.cost ELSE acc.consumption]

\* transform_csv_to_json: the documents written, the consumption document
\* first; the cost document is written when it has a reading.
TransformCsv(rows, energy_type, extract_cost_data) ==
    LET acc == CsvRowsLoop(CsvAcc(<<>>, <<>>, NoTime, NoTime), rows, extract_cost_data)
    IN <<CsvDocument(energy_type, "consumption", acc)>>
       \o (IF extract_cost_data /\ acc.cost # <<>>
           THEN <<CsvDocument(energy_type, "cost", acc)>> ELSE <<>>)

\* The rows a CSV file may hold below its header.
CsvRows ==
    { <<TimeCell(2), NumCell(5, 1), NumCell(7, 2)>>,
      <<TimeCell(1), NumCell(3, 1), NumCell(5, 1)>>,
      <<TimeCell(3), NumCell(7, 1), Empty>>,
      <<TimeCell(0), Text, NumCell(5, 1)>>,
      <<Text, NumCell(1, 1), NumCell(29, 2)>>,
      <<Text, ConsumptionHeader, CostHeader>>,
      <<TimeCell(4), Empty, NumCell(5, 1)>>,
      <<TimeCell(4)>>,
      <<TimeCell(5), NumCell(9, 1)>>,
      <<TimeCell(4), NumCell(1, 1), Text>>,
      <<TimeCell(4), NumCell(2, 1), Blank>> }

\* N3rgyCSVClient() and the arguments of the call.
InitCsv ==
    /\ tz \in {0, HalfDay}
    /\ init_dir = "./processed"
    /\ output_dir = init_dir
    /\ conv_op = None
    /\ conv_in \in [rows : SeqsOver(CsvRows, MaxCsvRows),
                    energy_type : {"electricity", "water"},
                    extract_cost_data : BOOLEAN]
    /\ merged = <<>>
    /\ written = <<>>
    /\ written_to = None
    /\ conv_err = None
    /\ nconv = 0
    /\ InitRetrievalIdle

\* transform_csv_to_json(source_csv_path, energy_type, extract_cost_data):
\* an energy type without metadata raises ValueError before the file is read.
TransformCsvToJson ==
    /\ conv_op = None
    /\ IF conv_in.energy_type \notin {"electricity", "gas"}
       THEN /\ written' = <<>>
            /\ written_to' = None
            /\ conv_err' = "ValueError"
       ELSE /\ written' = TransformCsv(conv_in.rows, conv_in.energy_type,
                                       conv_in.extract_cost_data)
            /\ written_to' = output_dir
            /\ conv_err' = None
    /\ conv_op' = "transform_csv_to_json"
    /\ nconv' = nconv + 1
    /\ UNCHANGED <<tz, init_dir, output_dir, conv_in, merged>>
    /\ UNCHANGED retrievalVars

NextCsv == TransformCsvToJson

SpecCsv == InitCsv /\ [][NextCsv]_vars

\* ------------------------------------ N3rgyCSVClient.process_all_files
\* A CSV file of the source directory: the energy word of its name (None
\* when it has neither 'electricity' nor 'gas'), the date text of its name
\* and its content.
CsvFile(energy, date, content) == [energy |-> energy, date |-> date, content |-> content]

\* The date text of a file name: "range" for YYYYMMDD_to_YYYYMMDD (a and b
\* the two dates), "yearmonth" for six digits YYYYMM and "dashed" for
\* YYYY-MM (a the year, b the month digits), "none" for no date.
NameDate(kind, a, b) == [kind |-> kind, a |-> a, b |-> b]

\* A content: whether the file can be opened, whether it has a header line,
\* and its rows.
Content(readable, header, rows) == [readable |-> readable, header |-> header, rows |-> rows]

\* calendar.monthrange(year, month)[1]
LastDay(year, month) ==
    IF month = 2
    THEN (IF year % 4 = 0 /\ (year % 100 # 0 \/ year % 400 = 0) THEN 29 ELSE 28)
    ELSE IF month \in {4, 6, 9, 11} THEN 30 ELSE 31

DateRange(from, to) == [kind |-> "range", from |-> from, to |-> to]

UnknownDateRange == [kind |-> "unknown_date_range", from |-> 0, to |-> 0]

\* _extract_date_range_from_filename: calendar.monthrange raises
\* IllegalMonthError, a ValueError, for month digits outside 01..12.
ExtractDateRangeFromFilename(date) ==
    CASE date.kind = "range" -> [error |-> None, range |-> DateRange(date.a, date.b)]
      [] date.kind \in {"yearmonth", "dashed"} ->
           IF date.b \in 1..12
           THEN [error |-> None,
                 range |-> DateRange(date.a * 10000 + date.b * 100 + 1,
                                     date.a * 10000 + date.b * 100 + LastDay(date.a, date.b))]
           ELSE [error |-> "ValueError", range |-> UnknownDateRange]
      [] OTHER -> [error |-> None, range |-> UnknownDateRange]

\* A document's path: {energy_type}_{category}_{date_range}.json in the
\* output directory.
JsonPath(energy, category, range) == [energy |-> energy, category |-> category, range |-> range]

\* transform_csv_to_json as process_all_files calls it: the exception it
\* ends with, or the documents it writes.
TransformFile(file, extract_cost) ==
    IF ~file.content.readable THEN [error |-> "OSError", docs |-> <<>>]
    ELSE IF ~file.content.header THEN [error |-> "StopIteration", docs |-> <<>>]
    ELSE [error |-> None, docs |-> TransformCsv(file.content.rows, file.energy, extract_cost)]

\* The loop's variables: the paths collected, the documents on disk, and
\* the exception that ended the loop.
FilesAcc(paths, docs, error) == [paths |-> paths, docs |-> docs, error |-> error]

\* Lines 85-111, one file.
ProcessFile(acc, file, extract_cost) ==
    IF file.energy = None THEN acc
    ELSE LET dr == ExtractDateRangeFromFilename(file.date)
             t == TransformFile(file, extract_cost)
         IN IF dr.error # None THEN FilesAcc(acc.paths, acc.docs, dr.error)
            ELSE IF t.error # None THEN acc
            ELSE FilesAcc(acc.paths \o [j \in 1..Len(t.docs) |->
                                          JsonPath(file.energy,
                                                   IF j = 1 THEN "consumption" ELSE "cost",
                                                   dr.range)],
                          acc.docs \o t.docs,
                          None)

RECURSIVE ProcessFiles(_, _, _)
ProcessFiles(acc, files, extract_cost) ==
    IF files = <<>> \/ acc.error # None THEN acc
    ELSE ProcessFiles(ProcessFile(acc, Head(files), extract_cost), Tail(files),
                      extract_cost)

\* The CSV files a source directory may hold.
CsvFiles ==
    { CsvFile("electricity", NameDate("range", 20240501, 20240531),
              Content(TRUE, TRUE, << <<TimeCell(2), NumCell(5, 1), NumCell(5, 1)>> >>)),
      CsvFile("gas", NameDate("yearmonth", 2024, 2),
              Content(TRUE, TRUE, << <<TimeCell(3), NumCell(7, 1), Empty>>,
                                     <<Text, NumCell(1, 1), NumCell(29, 2)>> >>)),
      CsvFile(None, NameDate("range", 20240501, 20240531),
              Content(TRUE, TRUE, << <<TimeCell(1), NumCell(3, 1), NumCell(5, 1)>> >>)),
      CsvFile("electricity", NameDate("yearmonth", 2024, 13),
              Content(TRUE, TRUE, << <<TimeCell(1), NumCell(3, 1), NumCell(5, 1)>> >>)),
      CsvFile("gas", NameDate("dashed", 2023, 2), Content(FALSE, FALSE, <<>>)),
      CsvFile("electricity", NameDate("none", 0, 0), Content(TRUE, FALSE, <<>>)) }

\* N3rgyCSVClient(source_dir) and the arguments of process_all_files.
InitProcess ==
    /\ tz \in {0, HalfDay}
    /\ init_dir = "./processed"
    /\ output_dir = init_dir
    /\ conv_op = None
    /\ conv_in \in [csv_files : SeqsOver(CsvFiles, MaxCsvFiles),
                    extract_cost : BOOLEAN,
                    combine_to_jsonl : BOOLEAN]
    /\ merged = <<>>
    /\ written = <<>>
    /\ written_to = None
    /\ conv_err = None
    /\ nconv = 0
    /\ InitRetrievalIdle

\* process_all_files(extract_cost, combine_to_jsonl): the list returned is
\* in `written`, the documents on disk and the lines of the combined file
\* are in `merged`.
ProcessAllFiles ==
    /\ conv_op = None
    /\ \E r \in {ProcessFiles(FilesAcc(<<>>, <<>>, None), conv_in.csv_files,
                              conv_in.extract_cost)} :
         /\ written' = IF r.error = None THEN r.paths ELSE <<>>
         /\ merged' = [documents |-> r.docs,
                       combined |-> IF r.error = None /\ conv_in.combine_to_jsonl
                                       /\ r.paths # <<>>
                                    THEN MergeJsonFiles(r.docs) ELSE <<>>]
         /\ conv_err' = r.error
    /\ written_to' = output_dir
    /\ conv_op' = "process_all_files"
    /\ nconv' = nconv + 1
    /\ UNCHANGED <<tz, init_dir, output_dir, conv_in>>
    /\ UNCHANGED retrievalVars

NextProcess == ProcessAllFiles

SpecProcess == InitProcess /\ [][NextProcess]_vars

\* ------------------------------------------- convert_to_jsonl: metadata
\* A JSON document is a function from key names to values; a key the
\* document does not have maps to Absent.
Absent == [absent |-> TRUE]

JObject(n) == [object |-> n]

\* A string, and where it stands: under a key of a document or in the code.
JText(of, text) == [of |-> of, text |-> text]

Default(text) == JText("default", text)

JRows(n) == [rows |-> n]

IsObject(value) == DOMAIN value = {"object"}

\* dict.get(key, default): the value of a key the document has, null
\* included, else the default.
Get(doc, key, default) == IF doc[key] # Absent THEN doc[key] ELSE default

\* Mutant: the local key is looked up first.
GetLocalFirst(doc, remote, local, default) == Get(doc, local, Get(doc, remote, default))

\* data.get(remote, data.get(local, default))
GetEither(doc, remote, local, default) == Get(doc, remote, Get(doc, local, default))

QueryKeyNames == {"period", "from", "to"}

EmptyQuery == JObject([key \in QueryKeyNames |-> Absent])

\* Lines 123-132 and 148: the metadata and the readings array taken from a
\* document; a query that is no object has no get (AttributeError).
ResolveMetadata(data) ==
    LET query == Get(data, "query", EmptyQuery)
    IN IF ~IsObject(query) THEN [error |-> "AttributeError"]
       ELSE [error |-> None,
             resource_id |-> GetEither(data, "resourceId", "resource_id", Default("unknown")),
             resource_name |-> GetEither(data, "name", "resource_name", Default("energy consumption")),
             resource_type |-> GetEither(data, "resourceTypeId", "resource_type", Default("unknown")),
             classifier |-> GetEither(data, "classifier", "resource_classifier", Default("unknown")),
             units |-> GetEither(data, "units", "resource_unit", Default("kWh")),
             period |-> Get(query.object, "period", Get(data, "period", Default("unknown"))),
             from_date |-> Get(query.object, "from", Get(data, "start_date", Default("unknown"))),
             to_date |-> Get(query.object, "to", Get(data, "end_date", Default("unknown"))),
             readings |-> GetEither(data, "data", "readings", JRows(<<>>))]

\* Lines 168-180: the record written for a row.
NormalizedRecord(meta, row) ==
    [resource_id |-> meta.resource_id, resource_name |-> meta.resource_name,
     resource_type |-> meta.resource_type, classifier |-> meta.classifier,
     units |-> meta.units, period |-> meta.period, from_date |-> meta.from_date,
     to_date |-> meta.to_date, timestamp |-> row.ts,
     timestamp_iso |-> ToIso(row.ts), value |-> row.value]

RECURSIVE NormalizeRows(_, _)
NormalizeRows(meta, rows) ==
    IF rows = <<>> THEN <<>>
    ELSE (IF IsPair(Head(rows)) THEN <<NormalizedRecord(meta, Head(rows))>> ELSE <<>>)
         \o NormalizeRows(meta, Tail(rows))

RemoteKeys == {"resourceId", "name", "resourceTypeId", "classifier", "units"}

LocalKeys == {"resource_id", "resource_name", "resource_type", "resource_classifier", "resource_unit"}

PeriodKeys == {"period", "start_date", "end_date"}

DocumentKeys == RemoteKeys \cup LocalKeys \cup PeriodKeys \cup {"query", "data", "readings"}

\* The value a document has under a key, named after the key.
ValueAt(where, key) == JText(where, key)

DataRows == JRows(<<Row(JNum(1), JNum(5))>>)

ReadingsRows == JRows(<<Row(JNum(2), JNum(7)), NotAList>>)

\* The query of a document: none, null, an object without keys, one with a
\* period, one with period, from and to.
Queries ==
    { Absent, JNull, EmptyQuery,
      JObject([key \in QueryKeyNames |-> IF key = "period" THEN ValueAt("query", key) ELSE Absent]),
      JObject([key \in QueryKeyNames |-> ValueAt("query", key)]) }

\* A document: its remote keys are there, null or not there, all alike,
\* its local keys and its top-level period keys are there or not; it has
\* readings under data, under readings, under both or under neither.
Documents ==
    { [key \in DocumentKeys |->
          CASE key \in RemoteKeys ->
                 (CASE remote[1] = "absent" -> Absent
                    [] remote[1] = "null" -> JNull
                    [] OTHER -> ValueAt("remote", key))
            [] key \in LocalKeys -> IF local THEN ValueAt("local", key) ELSE Absent
            [] key \in PeriodKeys -> IF top THEN ValueAt("top", key) ELSE Absent
            [] key = "query" -> query
            [] key = "data" -> IF has_data THEN DataRows ELSE Absent
            [] key = "readings" -> IF has_readings THEN ReadingsRows ELSE Absent] :
        remote \in {<<"absent">>, <<"null">>, <<"remote">>}, local \in BOOLEAN,
        top \in BOOLEAN, query \in Queries, has_data \in BOOLEAN, has_readings \in BOOLEAN }

\* A converter and the document file it is to convert.
InitNormalize ==
    /\ InitConverter
    /\ conv_in \in [data : Documents]
    /\ InitRetrievalIdle

\* convert_to_jsonl(data) for the path of a document file: the metadata
\* resolved are in `merged`, the records written in `written`.
ConvertToJsonlDocument ==
    /\ conv_op = None
    /\ \E meta \in {ResolveMetadata(conv_in.data)} :
         IF meta.error # None
         THEN /\ merged' = <<>>
              /\ written' = <<>>
              /\ written_to' = None
              /\ conv_err' = meta.error
         ELSE /\ merged' = meta
              /\ written' = NormalizeRows(meta, meta.readings.rows)
              /\ written_to' = output_dir
              /\ conv_err' = None
    /\ conv_op' = "convert_to_jsonl"
    /\ nconv' = nconv + 1
    /\ UNCHANGED <<tz, init_dir, output_dir, conv_in>>
    /\ UNCHANGED retrievalVars

NextNormalize == ConvertToJsonlDocument

SpecNormalize == InitNormalize /\ [][NextNormalize]_vars

\* ------------------------------ find_matching_resource_files: file names
\* A file name is the sequence of its words between underscores, without
\* the ".json" at its end. None of the words used holds another one, so
\* `word in filename.lower()` is: the name has the word.
HasWord(name, word) == \E p \in 1..Len(name) : name[p] = word

\* Mutant: every file is of type "unknown".
ResourceTypeUnknown(name) == "unknown"

\* Lines 249-256.
ResourceTypeOfName(name) ==
    CASE HasWord(name, "electricity") -> "electricity"
      [] HasWord(name, "gas") -> "gas"
      [] HasWord(name, "water") -> "water"
      [] OTHER -> "unknown"

\* Lines 264-267: consumption is looked for first; None with neither word.
CategoryOfName(name) ==
    CASE HasWord(name, "consumption") -> "consumption"
      [] HasWord(name, "cost") -> "cost"
      [] OTHER -> None

\* '_'.join(filename_parts[2:]).replace('.json', '')
DateRangeOfName(name) == SubSeq(name, 3, Len(name))

\* Lines 246-267: the files entered in one of the two dictionaries, in the
\* order found; a name of fewer than three parts is passed over.
RECURSIVE FilesByKey(_)
FilesByKey(names) ==
    IF names = <<>> THEN <<>>
    ELSE (IF Len(Head(names)) >= 3 /\ CategoryOfName(Head(names)) # None
          THEN <<DirFile(ResourceTypeOfName(Head(names)), CategoryOfName(Head(names)),
                         DateRangeOfName(Head(names)), Head(names))>>
          ELSE <<>>)
         \o FilesByKey(Tail(names))

\* The names a directory may hold.
Names ==
    { <<"electricity", "consumption", "r1">>, <<"electricity", "cost", "r1">>,
      <<"electricity", "consumption", "r2">>,
      <<"gas", "consumption", "r1", "r2">>, <<"gas", "cost", "r1", "r2">>,
      <<"gas", "cost", "r1">>,
      <<"water", "cost">>, <<"water", "notes", "r1">>,
      <<"solar", "consumption", "r1">> }

\* directory.glob("*.json"): files of distinct names, in any order.
NameListings ==
    { dir \in SeqsOver(Names, MaxNames) :
        \A a, b \in 1..Len(dir) : a # b => dir[a] # dir[b] }

\* A converter and the directory it is to search.
InitFind ==
    /\ InitConverter
    /\ conv_in \in [names : NameListings]
    /\ InitRetrievalIdle

\* find_matching_resource_files(directory): the pairs returned are in
\* `written`; nothing is written to disk.
FindMatchingResourceFilesCall ==
    /\ conv_op = None
    /\ written' = FindMatchingResourceFiles(FilesByKey(conv_in.names))
    /\ merged' = <<>>
    /\ written_to' = None
    /\ conv_err' = None
    /\ conv_op' = "find_matching_resource_files"
    /\ nconv' = nconv + 1
    /\ UNCHANGED <<tz, init_dir, output_dir, conv_in>>
    /\ UNCHANGED retrievalVars

NextFind == FindMatchingResourceFilesCall

SpecFind == InitFind /\ [][NextFind]_vars

\* ================================================================= claims
SplitDone == pc \in {"fetch", "auth_wait", "get_wait", "done"}

WindowLen(w) == Instant(w[2]) - Instant(w[1])

\* C1: for start < end and batch_days >= 1 the windows returned by
\* _calculate_batch_date_ranges begin at start, end at end, each ends where
\* the next begins, all but the last are batch_days long and the last is
\* longer than 0 and at most batch_days long; (day 0, day 30, 10) gives the
\* three windows (0,10), (10,20), (20,30).
C1_WindowsTileRange ==
    (SplitDone /\ DtLt(start_date, end_date) /\ batch_days >= 1) =>
        LET n == Len(date_ranges)
            full == batch_days * TicksPerDay
        IN /\ n >= 1
           /\ date_ranges[1][1] = start_date
           /\ DtEq(date_ranges[n][2], end_date)
           /\ \A k \in 1..(n - 1) :
                /\ date_ranges[k][2] = date_ranges[k + 1][1]
                /\ WindowLen(date_ranges[k]) = full
           /\ WindowLen(date_ranges[n]) > 0
           /\ WindowLen(date_ranges[n]) <= full
           /\ (/\ start_date = Naive(0)
               /\ end_date = Naive(30 * TicksPerDay)
               /\ batch_days = 10)
              => date_ranges =
                   << <<Naive(0), Naive(10 * TicksPerDay)>>,
                      <<Naive(10 * TicksPerDay), Naive(20 * TicksPerDay)>>,
                      <<Naive(20 * TicksPerDay), Naive(30 * TicksPerDay)>> >>

\* C1 witness: three windows were returned and the last one was clipped.
C1_Witness ==
    /\ pc = "fetch"
    /\ batch_days >= 1
    /\ Len(date_ranges) = 3
    /\ WindowLen(date_ranges[3]) < batch_days * TicksPerDay

\* C2: when start == end the split returns the one window (start, end),
\* whatever batch_days is, and the retrieval invokes the adapter once.
C2_DegenerateRangeOneWindow ==
    (SplitDone /\ DtEq(start_date, end_date)) =>
        /\ date_ranges = << <<start_date, end_date>> >>
        /\ pc = "done" => Len(calls) = 1

\* C2 witness: a retrieval over an empty range with a batch_days below 1
\* has returned after one adapter invocation.
C2_Witness ==
    /\ pc = "done"
    /\ DtEq(start_date, end_date)
    /\ batch_days < 1
    /\ Len(calls) = 1

\* C3: the returned list is non-decreasing in timestamp and readings of
\* equal timestamp keep their fetch order (a reading's value grows with its
\* place in the fetch order).
C3_SortedAndStable ==
    pc = "done" =>
        \A a, b \in 1..Len(all_readings) :
            a < b => /\ all_readings[a][1] <= all_readings[b][1]
                     /\ all_readings[a][1] = all_readings[b][1]
                          => all_readings[a][2] < all_readings[b][2]

\* C3 witness: a window answered with its readings out of order, a later
\* window repeated a timestamp, and the retrieval has returned.
C3_Witness ==
    /\ pc = "done"
    /\ \E k \in 1..Len(calls) :
         /\ calls[k].outcome = "ok"
         /\ Len(ExtractReadings(calls[k].doc)) = 2
         /\ ExtractReadings(calls[k].doc)[1][1] > ExtractReadings(calls[k].doc)[2][1]
    /\ \E a, b \in 1..Len(all_readings) :
         a < b /\ all_readings[a][1] = all_readings[b][1]

\* The readings of the windows that succeeded, in fetch order.
RECURSIVE SucceededReadings(_)
SucceededReadings(cs) ==
    IF cs = <<>> THEN <<>>
    ELSE SucceededReadings(SubSeq(cs, 1, Len(cs) - 1))
         \o (IF cs[Len(cs)].outcome = "ok"
             THEN ExtractReadings(cs[Len(cs)].doc) ELSE <<>>)

Occurrences(x, s) == Cardinality({ k \in 1..Len(s) : s[k] = x })

SameReadings(s, u) ==
    /\ Len(s) = Len(u)
    /\ \A k \in 1..Len(s) : Occurrences(s[k], s) = Occurrences(s[k], u)

\* C4: whichever windows fail, the retrieval raises nothing once the range
\* is validated, every window is still fetched, and it returns exactly the
\* readings of the windows that succeeded.
C4_PartialFailureKeepsReadings ==
    /\ pc = "raised" => calls = <<>>
    /\ SplitDone => err = None
    /\ pc = "done" =>
         /\ Len(calls) = Len(date_ranges)
         /\ SameReadings(all_readings, SucceededReadings(calls))

\* C4 witness: of three windows the second failed, the first and the third
\* delivered readings, and the retrieval has returned.
C4_Witness ==
    /\ pc = "done"
    /\ Len(calls) = 3
    /\ calls[1].outcome = "ok" /\ ExtractReadings(calls[1].doc) # <<>>
    /\ calls[2].outcome # "ok"
    /\ calls[3].outcome = "ok" /\ ExtractReadings(calls[3].doc) # <<>>
    /\ Len(all_readings) >= 2

\* The instant and the awareness of a date argument as the caller wrote it.
ArgAware(x) == IF x.kind = "str" THEN x.suffix # "" ELSE x.dt.aware

ArgInstant(x) ==
    IF x.kind = "str"
    THEN x.dt.t - (IF x.suffix = "+12:00" THEN HalfDay ELSE 0)
    ELSE Instant(x.dt)

C6_OneCallPerWindowInOrder ==
    /\ outstanding \in {0, 1}
    /\ SplitDone =>
         /\ Len(calls) = i
         /\ i <= Len(date_ranges)
         /\ \A k \in 1..Len(calls) : calls[k].window = date_ranges[k]
         /\ \A k \in 1..(Len(calls) - 1) :
              batch_days >= 1 =>
                Instant(calls[k].window[1]) < Instant(calls[k + 1].window[1])
         /\ Cardinality({ k \in 1..Len(net) : net[k].method = "GET" })
              <= i + outstanding
    /\ pc = "done" => Len(calls) = Len(date_ranges)

\* C6 witness: three windows were fetched, one of them failed, and the
\* retrieval has returned.
C6_Witness ==
    /\ pc = "done"
    /\ Len(calls) = 3
    /\ \E k \in 1..3 : calls[k].outcome \in {"ConnectionError", "Exception"}

CredentialErrors == {MissingCredentialsError, AuthError("http")}

\* C7: an adapter failure for missing credentials or for a refused
\* authentication is not swallowed: once one occurred, the retrieval has
\* ended with that error.
C7_CredentialFailuresPropagate ==
    (\E k \in 1..Len(calls) : calls[k].outcome \in CredentialErrors)
        => (pc = "raised" /\ err \in CredentialErrors)

\* C8: no two readings of the returned list carry the same timestamp.
C8_UniqueTimestamps ==
    pc = "done" =>
        \A a, b \in 1..Len(all_readings) :
            a # b => all_readings[a][1] # all_readings[b][1]

\* C9: a data-fetching call entered without a token but with a username and
\* a password sends the authentication request first; the data request
\* comes second, goes to the method's path and carries the token that the
\* authentication answered with.
C9_AutoAuthBeforeData ==
    (/\ method \in DataMethods
     /\ ~Truthy(entry_token)
     /\ Truthy(username) /\ Truthy(password)) =>
        /\ Len(net) \in {1, 2}
        /\ net[1] = AuthRequest(username, password)
        /\ Len(net) = 2 =>
             /\ auth_answer.status = "ok"
             /\ net[2] = DataRequest(Path(method), auth_answer.token)

\* C9 witness: get_readings, entered without a token, has authenticated and
\* its data request is out with the fresh token.
C9_Witness ==
    /\ pc = "c_get_wait"
    /\ method = "get_readings"
    /\ ~Truthy(entry_token)
    /\ Len(net) = 2
    /\ net[2].token = "fresh"

\* C10: a client call (authenticate or data-fetching) entered with neither a
\* token nor both a username and a password sends no request, ends with the
\* missing-credentials error and leaves the token unset.
C10_MissingCredentialsFailFast ==
    (method # None /\ CredentialsMissing(entry_token, username, password)) =>
        /\ net = <<>>
        /\ pc = "idle"
        /\ err = MissingCredentialsError
        /\ ~Truthy(token)

\* The kind of failure the error taxonomy names for a network outcome.
Taxonomy(status) ==
    CASE status = "conn"         -> "ConnectionError"
      [] status = "badjson"      -> "ValueError"
      [] status = "http"         -> "Exception"
      [] status = "http_badjson" -> "Exception"

\* C11: a data-fetching call that failed on a network outcome, in its
\* authentication step or in its data request, ended with the kind the
\* taxonomy names for that outcome: ConnectionError for no connection,
\* ValueError for a body that is not JSON, the generic Exception for a
\* non-2xx status, also when that answer's body is not JSON.
C11_FailuresUseTaxonomy ==
    (method \in DataMethods /\ pc = "idle") =>
        /\ auth_answer.status \in FailureStatuses
             => err = Taxonomy(auth_answer.status)
        /\ data_answer \in FailureStatuses
             => err = Taxonomy(data_answer)

\* The rows of a file that are lists of two cells or more, and the
\* timestamps they carry.
PairRows(file) == SelectSeq(GetReadings(file), IsPair)

Timestamps(file) == { PairRows(file)[j].ts : j \in 1..Len(PairRows(file)) }

MergeReturned == conv_op = "merge_consumption_and_cost_data" /\ conv_err = None

\* C12: the merge of a consumption and a cost series has each timestamp of
\* either series exactly once and no other timestamp; where only one series
\* has the timestamp, the other side's value is null, not 0.
C12_MergeIsOuterJoin ==
    MergeReturned =>
        /\ DictKeys(merged)
             = Timestamps(conv_in.consumption) \cup Timestamps(conv_in.cost)
        /\ \A a, b \in 1..Len(merged) :
             a # b => merged[a].timestamp # merged[b].timestamp
        /\ \A j \in 1..Len(merged) :
             /\ merged[j].timestamp \notin Timestamps(conv_in.cost)
                  => merged[j].cost_value = JNull
             /\ merged[j].timestamp \notin Timestamps(conv_in.consumption)
                  => merged[j].consumption_value = JNull

\* C12 witness: a merge returned three records: a timestamp of both series,
\* one of the consumption series alone, and one of the cost series alone
\* whose cost is 0.
C12_Witness ==
    /\ MergeReturned
    /\ Len(merged) = 3
    /\ \E j \in 1..3 :
         /\ merged[j].timestamp \in Timestamps(conv_in.consumption)
         /\ merged[j].timestamp \in Timestamps(conv_in.cost)
    /\ \E j \in 1..3 :
         /\ merged[j].timestamp \notin Timestamps(conv_in.cost)
         /\ merged[j].consumption_value = JNum(0)
    /\ \E j \in 1..3 :
         /\ merged[j].timestamp \notin Timestamps(conv_in.consumption)
         /\ merged[j].cost_value = JNum(0)

\* C13: a value of a merged record is null only if its series has no
\* reading at the record's timestamp, and convert_to_jsonl writes no record
\* with a null value: a raw reading with a null value is dropped.
C13_NullOnlyWhenAbsent ==
    /\ MergeReturned =>
         \A j \in 1..Len(merged) :
            /\ merged[j].consumption_value = JNull
                 => merged[j].timestamp \notin Timestamps(conv_in.consumption)
            /\ merged[j].cost_value = JNull
                 => merged[j].timestamp \notin Timestamps(conv_in.cost)
    /\ conv_op = "convert_to_jsonl" =>
         \A j \in 1..Len(written) : written[j].value # JNull


\* The epoch second the claim names for a numeric raw timestamp: a count
\* above the threshold is in milliseconds.
EpochSecond(n) == IF n > MsThreshold THEN n \div 1000 ELSE n

\* C19: a record written by convert_to_jsonl for a numeric raw timestamp
\* has the ISO time of the epoch second (the raw value divided by 1000 when
\* it is above 9999999999, the raw value otherwise) and carries that epoch
\* second as its timestamp.
C19_TimestampInEpochSeconds ==
    conv_op = "convert_to_jsonl" =>
        \A j \in 1..Len(written) :
            IsNumeric(written[j].timestamp) =>
                /\ written[j].timestamp_iso
                     = IsoFormat(FromTimestamp(EpochSecond(written[j].timestamp.n)))
                /\ written[j].timestamp = JNum(EpochSecond(written[j].timestamp.n))

\* C20: convert_to_jsonl and merge_consumption_and_cost_data end without an
\* exception whatever the rows are; rows that are no list of two cells or
\* more are dropped; a timestamp that is no number keeps its stringified
\* raw value as timestamp_iso; every other row has its record: one line per
\* row in convert_to_jsonl, the record of its timestamp in the merge.
C20_NeverFailsOnBadRow ==
    /\ conv_op = "convert_to_jsonl" =>
         /\ conv_err = None
         /\ Len(written) = Len(PairRows(conv_in.consumption))
         /\ \A j \in 1..Len(written) :
              /\ written[j].timestamp = PairRows(conv_in.consumption)[j].ts
              /\ ~IsNumeric(written[j].timestamp)
                   => written[j].timestamp_iso = StrOf(written[j].timestamp)
    /\ conv_op = "merge_consumption_and_cost_data" =>
         /\ conv_err = None
         /\ DictKeys(merged)
              = Timestamps(conv_in.consumption) \cup Timestamps(conv_in.cost)
         /\ \A j \in 1..Len(merged) :
              ~IsNumeric(merged[j].timestamp)
                 => merged[j].timestamp_iso = StrOf(merged[j].timestamp)


\* The pairs of a directory: a consumption file and the cost file of the
\* same resource type and date range.
PairsOf(dir) ==
    { <<dir[a], dir[b]>> : a, b \in 1..Len(dir) } \cap
    { p \in DirFiles \X DirFiles :
        /\ p[1].category = "consumption" /\ p[2].category = "cost"
        /\ p[1].ftype = p[2].ftype /\ p[1].range = p[2].range }

CombineReturned ==
    /\ conv_op = "combine_all_resources_into_single_file"
    /\ conv_err = None
    /\ written_to # None

\* A pair has a reading of the category at the timestamp.
HasReading(p, category, ts) ==
    ts \in Timestamps(IF category = "consumption" THEN p[1].file ELSE p[2].file)

\* C14: every record written by combine_all_resources_into_single_file has
\* the four fields electricity_consumption, electricity_cost,
\* gas_consumption and gas_cost, with 0 where no pair of that resource type
\* has a reading of that category at the record's timestamp.
C14_FourFieldsZeroFilled ==
    CombineReturned =>
        \A j \in 1..Len(written) : \A f \in FourFields :
            /\ f \in DOMAIN written[j].fields
            /\ (\A p \in PairsOf(conv_in.directory) :
                   p[1].ftype = f[1] => ~HasReading(p, f[2], written[j].timestamp))
                 => written[j].fields[f] = JNum(0)

\* The value a file has at a timestamp: that of one of its readings there,
\* null when it has none.
IsValueAt(file, ts, v) ==
    IF ts \in Timestamps(file)
    THEN \E j \in 1..Len(PairRows(file)) :
            PairRows(file)[j].ts = ts /\ PairRows(file)[j].value = v
    ELSE v = JNull

\* C16: the output of combine_all_resources_into_single_file has exactly
\* one record for each timestamp of a file of a discovered pair, in
\* ascending order of timestamp, and the two values a record carries for a
\* resource type are those a pair of that type has at the timestamp.
C16_CombineAllIsOuterJoin ==
    CombineReturned =>
        /\ { written[j].timestamp : j \in 1..Len(written) }
             = UNION { Timestamps(p[1].file) \cup Timestamps(p[2].file) :
                       p \in PairsOf(conv_in.directory) }
        /\ \A a, b \in 1..Len(written) :
             a < b => written[a].timestamp.n < written[b].timestamp.n
        /\ \A j \in 1..Len(written) : \A p \in PairsOf(conv_in.directory) :
             (\/ HasReading(p, "consumption", written[j].timestamp)
              \/ HasReading(p, "cost", written[j].timestamp))
               => FieldName(p[1].ftype, "consumption") \in DOMAIN written[j].fields
        /\ \A j \in 1..Len(written) : \A f \in DOMAIN written[j].fields :
             f[2] = "consumption" =>
                \E p \in PairsOf(conv_in.directory) :
                   /\ p[1].ftype = f[1]
                   /\ \/ HasReading(p, "consumption", written[j].timestamp)
                      \/ HasReading(p, "cost", written[j].timestamp)
                   /\ IsValueAt(p[1].file, written[j].timestamp,
                                written[j].fields[f])
                   /\ IsValueAt(p[2].file, written[j].timestamp,
                                written[j].fields[FieldName(f[1], "cost")])

\* C16 witness: a gas pair and an electricity pair were combined, the gas
\* pair first with its later reading first; three records were written and
\* one of them carries values of both resource types.
C16_Witness ==
    /\ CombineReturned
    /\ Cardinality(PairsOf(conv_in.directory)) = 2
    /\ conv_in.directory[1].ftype = "gas"
    /\ Len(written) = 3
    /\ written # merged
    /\ \E j \in 1..3 :
         /\ FieldName("gas", "consumption") \in DOMAIN written[j].fields
         /\ FieldName("electricity", "consumption") \in DOMAIN written[j].fields


\* The values the given files have for a field at a timestamp.
SourceValues(paths, f, ts) ==
    UNION { { paths[j].readings[k][2] :
                k \in { k \in 1..Len(paths[j].readings) :
                          paths[j].readings[k][1] = ts } } :
            j \in { j \in 1..Len(paths) :
                      /\ paths[j] # NoPath
                      /\ FieldName(EnergyType(paths[j]), DataCategory(paths[j])) = f } }

\* C15: every record create_jsonl_from_json_files writes has the four
\* fields electricity_consumption, electricity_cost, gas_consumption and
\* gas_cost; a field holds the value the given files have for it at the
\* record's timestamp, 0 when they have none; the records are in ascending
\* order of timestamp.
C15_FourFieldsSourceOrZero ==
    conv_op = "create_jsonl_from_json_files" =>
        /\ \A j \in 1..Len(written) : \A f \in FourFields :
             /\ f \in DOMAIN written[j].fields
             /\ LET src == SourceValues(conv_in.source_json_paths, f,
                                        written[j].timestamp)
                IN IF src = {} THEN written[j].fields[f] = 0
                   ELSE written[j].fields[f] \in src
        /\ \A a, b \in 1..Len(written) :
             a < b => written[a].timestamp < written[b].timestamp


YearlyReturned == conv_op = "convert_to_yearly_jsonl" /\ conv_err = None

\* Every timestamp of the given pairs is a count of epoch seconds.
TimestampsInSeconds(pairs) ==
    \A p \in 1..Len(pairs) : \A ts \in Timestamps(pairs[p][1]) \cup Timestamps(pairs[p][2]) :
        IsNumeric(ts) /\ ts.n <= MsThreshold

\* The merged records of the given pairs: one for a pair and a timestamp
\* of one of its two files.
MergedRecords(pairs) ==
    UNION { { <<p, ts>> : ts \in Timestamps(pairs[p][1]) \cup Timestamps(pairs[p][2]) } :
            p \in 1..Len(pairs) }

\* The calendar day of a merged record, in local time.
DayOfRecord(rec) == DateOf(rec[2].n + tz)

\* The number a file adds to a total at a timestamp: its value there, and
\* nothing for a null or for no reading.
Amount(file, ts) ==
    IF ts \in Timestamps(file)
    THEN LET cell == (CHOOSE row \in { PairRows(file)[j] : j \in 1..Len(PairRows(file)) } :
                         row.ts = ts).value
         IN IF cell.kind = "null" THEN 0 ELSE cell.n
    ELSE 0

RECURSIVE SumOver(_, _)
SumOver(f, S) ==
    IF S = {} THEN 0
    ELSE LET x == CHOOSE x \in S : TRUE IN f[x] + SumOver(f, S \ {x})

C18_NoStateAcrossCalls ==
    written_to # None =>
        written_to = IF conv_op = "convert_to_yearly_jsonl" /\ Truthy(conv_in.output_dir)
                     THEN conv_in.output_dir
                     ELSE init_dir



\* The rows of a CSV file that are left when the ragged ones are skipped:
\* a time that parses and a consumption that parses.
Remaining(row) == Len(row) >= 2 /\ row[1].kind = "time" /\ row[2].kind = "num"

CsvTransformed == conv_op = "transform_csv_to_json" /\ conv_in.energy_type = "electricity"

\* C21: transform_csv_to_json does not fail on a ragged row: rows with an
\* empty consumption, rows that repeat the header, and rows whose time or
\* consumption does not parse are skipped, and the consumption document has
\* one reading for each row that remains, in the order of the file.
C21_RaggedRowsSkipped ==
    CsvTransformed =>
        LET kept == SelectSeq(conv_in.rows, Remaining)
        IN /\ conv_err = None
           /\ Len(written) >= 1
           /\ written[1].readings =
                [j \in 1..Len(kept) |->
                    <<kept[j][1].n - tz, ParseFloat(kept[j][2].n, kept[j][2].k)>>]

\* C21 witness: a file of three rows, the second of which does not parse,
\* gave two readings, the later time first.
C21_Witness ==
    /\ CsvTransformed
    /\ Len(conv_in.rows) = 3
    /\ ~Remaining(conv_in.rows[2])
    /\ Len(written[1].readings) = 2
    /\ written[1].readings[1][1] > written[1].readings[2][1]


\* A row that is kept and has a cost that parses.
HasCostNumber(row) == Remaining(row) /\ Len(row) > 2 /\ row[3].kind = "num"

\* C23: for each row kept that has a cost, the cost document holds, at the
\* time of the row's consumption reading, 100 times the cost of the file:
\* the float of that decimal number (4.56 for a cost of 0.0456).
C23_CostIsHundredfold ==
    (CsvTransformed /\ conv_in.extract_cost_data) =>
        LET kept == SelectSeq(conv_in.rows, HasCostNumber)
        IN kept # <<>> =>
             /\ Len(written) = 2
             /\ written[2].readings =
                  [j \in 1..Len(kept) |->
                      <<kept[j][1].n - tz,
                        Nearest(100 * kept[j][3].n, Pow10(kept[j][3].k), 0)>>]


\* The times of a document's readings, as local wall-clock times.
ReadingTimes(doc) == { doc.readings[j][1] + tz : j \in 1..Len(doc.readings) }

\* C28: in each document transform_csv_to_json writes, start_date and
\* end_date are the earliest and the latest time of the document's own
\* readings, and are empty exactly when it has none.
C28_DatesAreOfStoredReadings ==
    CsvTransformed =>
        \A d \in 1..Len(written) :
            LET times == ReadingTimes(written[d])
            IN IF times = {}
               THEN written[d].start_date = NoTime /\ written[d].end_date = NoTime
               ELSE /\ written[d].start_date = LocalTime(CHOOSE t \in times : \A u \in times : t <= u)
                    /\ written[d].end_date = LocalTime(CHOOSE t \in times : \A u \in times : t >= u)


\* A CSV file that can be processed: its name has an energy word and a date
\* text that can be expanded, and it can be read and has its header.
Succeeds(file) ==
    /\ file.energy # None
    /\ file.date.kind \in {"yearmonth", "dashed"} => file.date.b \in 1..12
    /\ file.content.readable
    /\ file.content.header

\* The paths of the documents of a file that succeeds: the consumption
\* document and, when a cost was taken from a row, the cost document.
PathsOf(file, extract_cost) ==
    LET range == IF file.date.kind = "range" THEN DateRange(file.date.a, file.date.b)
                 ELSE IF file.date.kind = "none" THEN UnknownDateRange
                 ELSE DateRange(file.date.a * 10000 + file.date.b * 100 + 1,
                                file.date.a * 10000 + file.date.b * 100
                                  + LastDay(file.date.a, file.date.b))
    IN <<JsonPath(file.energy, "consumption", range)>>
       \o (IF extract_cost
              /\ \E j \in 1..Len(file.content.rows) : HasCostNumber(file.content.rows[j])
           THEN <<JsonPath(file.energy, "cost", range)>> ELSE <<>>)

RECURSIVE PathsOfAll(_, _)
PathsOfAll(files, extract_cost) ==
    IF files = <<>> THEN <<>>
    ELSE (IF Succeeds(Head(files)) THEN PathsOf(Head(files), extract_cost) ELSE <<>>)
         \o PathsOfAll(Tail(files), extract_cost)

\* C22: process_all_files contains a failure that is local to one CSV file:
\* it raises nothing, and the list it returns holds the document paths of
\* the files that succeed, those of every other file of the directory.
C22_FileFailuresContained ==
    conv_op = "process_all_files" =>
        /\ conv_err = None
        /\ written = PathsOfAll(conv_in.csv_files, conv_in.extract_cost)


\* ---------------------------------------------------------------- C24
Has(doc, key) == doc[key] # Absent

\* The value is the one of the first key the document has, else the default.
FirstPresent(value, doc, first, doc2, second, default) ==
    /\ Has(doc, first) => value = doc[first]
    /\ ~Has(doc, first) /\ Has(doc2, second) => value = doc2[second]
    /\ ~Has(doc, first) /\ ~Has(doc2, second) => value = default

Resolved(fields, data) ==
    LET query == IF Has(data, "query") THEN data["query"].object ELSE EmptyQuery.object
    IN /\ FirstPresent(fields.resource_id, data, "resourceId", data, "resource_id", Default("unknown"))
       /\ FirstPresent(fields.resource_name, data, "name", data, "resource_name", Default("energy consumption"))
       /\ FirstPresent(fields.resource_type, data, "resourceTypeId", data, "resource_type", Default("unknown"))
       /\ FirstPresent(fields.classifier, data, "classifier", data, "resource_classifier", Default("unknown"))
       /\ FirstPresent(fields.units, data, "units", data, "resource_unit", Default("kWh"))
       /\ FirstPresent(fields.period, query, "period", data, "period", Default("unknown"))
       /\ FirstPresent(fields.from_date, query, "from", data, "start_date", Default("unknown"))
       /\ FirstPresent(fields.to_date, query, "to", data, "end_date", Default("unknown"))

Normalized == conv_op = "convert_to_jsonl" /\ conv_err = None /\ "data" \in DOMAIN conv_in

\* C24: when convert_to_jsonl has converted a document, every metadata
\* field, in the metadata it resolved and in every record it wrote, is the
\* value under the remote key if the document has that key, else the one
\* under the local key if it has that, else the default; period, from and
\* to come from the query object, else from the top-level period,
\* start_date and end_date, else are "unknown"; and the rows it converted
\* are those under data if the document has data, else those under
\* readings, else none.
C24_FirstPresentWins ==
    Normalized =>
        /\ Resolved(merged, conv_in.data)
        /\ \A p \in DOMAIN written : Resolved(written[p], conv_in.data)
        /\ FirstPresent(merged.readings, conv_in.data, "data", conv_in.data, "readings", JRows(<<>>))
        /\ written = NormalizeRows(merged, merged.readings.rows)

\* A document without remote keys, with local keys, a query that has only
\* a period, top-level dates and rows under readings only was converted.
C24_Witness ==
    /\ Normalized
    /\ ~Has(conv_in.data, "resourceId") /\ Has(conv_in.data, "resource_id")
    /\ Has(conv_in.data, "query") /\ Has(conv_in.data, "start_date")
    /\ Has(conv_in.data["query"].object, "period")
    /\ ~Has(conv_in.data["query"].object, "from")
    /\ ~Has(conv_in.data, "data") /\ Has(conv_in.data, "readings")
    /\ Len(written) = 1
    /\ written[1].resource_id = ValueAt("local", "resource_id")
    /\ written[1].from_date = ValueAt("top", "start_date")
    /\ written[1].period = ValueAt("query", "period")

\* ---------------------------------------------------------------- C25
ResourceTypes == {"electricity", "gas", "water"}

\* {type}_{consumption|cost}_{daterange}.json
ByConvention(name) ==
    /\ Len(name) >= 3
    /\ name[1] \in ResourceTypes \cup {"solar"}
    /\ name[2] \in {"consumption", "cost"}

InDirectory(name) == \E p \in 1..Len(conv_in.names) : conv_in.names[p] = name

Counterparts(a, b) ==
    /\ ByConvention(a) /\ ByConvention(b)
    /\ a[2] = "consumption" /\ b[2] = "cost"
    /\ a[1] = b[1]
    /\ SubSeq(a, 3, Len(a)) = SubSeq(b, 3, Len(b))

Found == conv_op = "find_matching_resource_files"

C26_EveryPassMovesBatchStart ==
    [][(pc = "split_loop" /\ pc' = "split_loop") => batch_start' # batch_start]_vars

\* ---------------------------------------------------------------- C27
AuthenticationsSent ==
    Cardinality({p \in DOMAIN net : net[p] = AuthRequest(username, password)})

\* C27: over the window requests of one batched retrieval, all made on
\* one client object, the authentication request is sent at most once.
C27_AuthenticatesAtMostOnce == AuthenticationsSent <= 1

\* ---------------------------------------------------------------- C29
\* The merge gave every record of the pairs a timestamp_iso with a date.
MergeAccepted(pairs) ==
    \A rec \in MergedRecords(pairs) : ToIso(rec[2]).kind = "iso"

\* The date part of a merged record's timestamp_iso.
IsoDateOfRecord(rec) == ToIso(rec[2]).date

\* C29: convert_to_yearly_jsonl, given pairs whose timestamps the merge
\* turned into a timestamp_iso, in seconds or in milliseconds, does not
\* fail, and counts every merged record under the date of its
\* timestamp_iso: the days of the lines written are those dates, and a
\* line's reading_count is the number of merged records of its date.
C29_RollupDayIsIsoDate ==
    (conv_op = "convert_to_yearly_jsonl" /\ MergeAccepted(conv_in.file_pairs)) =>
        LET recs == MergedRecords(conv_in.file_pairs)
        IN /\ conv_err = None
           /\ UNION { { written[j].lines[k].date : k \in 1..Len(written[j].lines) } :
                      j \in 1..Len(written) }
                = { IsoDateOfRecord(r) : r \in recs }
           /\ \A j \in 1..Len(written) : \A k \in 1..Len(written[j].lines) :
                written[j].lines[k].reading_count
                    = Cardinality({ r \in recs : IsoDateOfRecord(r) = written[j].lines[k].date })

\* ---------------------------------------------------------------- C30
\* The readings of the given documents: the field they belong to, their
\* timestamp and their value.
GivenReadings(paths) ==
    UNION { { <<FieldName(EnergyType(paths[p]), DataCategory(paths[p])),
                paths[p].readings[k][1], paths[p].readings[k][2]>> :
                k \in 1..Len(paths[p].readings) } :
            p \in { p \in 1..Len(paths) : paths[p] # NoPath } }

\* C30: the combined JSONL that create_jsonl_from_json_files writes loses
\* no reading, also when several of the given documents are of one energy
\* type and category: it has exactly one record for each timestamp that a
\* given document has a reading at, and each reading's value is in the
\* field of its energy type and category of the record of its timestamp.
C30_NoReadingLost ==
    conv_op = "create_jsonl_from_json_files" =>
        LET given == GivenReadings(conv_in.source_json_paths)
        IN /\ \A ts \in { r[2] : r \in given } :
                Cardinality({ p \in DOMAIN written : written[p].timestamp = ts }) = 1
           /\ \A p \in DOMAIN written : written[p].timestamp \in { r[2] : r \in given }
           /\ \A r \in given : \A p \in DOMAIN written :
                written[p].timestamp = r[2] => written[p].fields[r[1]] = r[3]
=============================================================================
